---- MODULE Spec2Model ----
(***************************************************************************)
(* codedocent: the source editor (editor.py), the interactive server       *)
(* (server.py) and the batch analysis orchestrator (analyzer.py).          *)
(*                                                                         *)
(* Several specifications share this module, one per part of the program: *)
(*   SpecSplice  replace_block_source as a function of its inputs          *)
(*   SpecEditor  replace_block_source step by step on a file system that   *)
(*               other processes also write to, with I/O failures          *)
(*   SpecServer  request threads of the interactive server                 *)
(*   SpecBatch   one batch run of analyze()                                *)
(*   SpecRerun   runs of analyze() one after the other on one cache file   *)
(*   SpecIds     node ids over replaces that parse the file again          *)
(*   SpecFront   one POST /api/replace from its headers to its answer      *)
(*   SpecNode    what analysis does to one node: analyze_single_node       *)
(*               called on the nodes of a tree, or one run of analyze()    *)
(*   SpecWatch   the idle watcher and the requests, with the clock         *)
(*   SpecLife    the lifetime of the server: start_server and the callers  *)
(*               of server.shutdown(); SpecLifeFair is SpecLife with every *)
(*               thread scheduled eventually                               *)
(*   SpecCloud   cloud_chat: the endpoint test and the request             *)
(*   SpecLock    the workers of one batch run and the cache lock           *)
(*   SpecRange   replaces of two functions of one file: the lines written  *)
(*   SpecBusy    the idle watcher and requests that take time              *)
(*   SpecRetry   single-node calls, then two runs of analyze(), on a file   *)
(*               that holds the same method twice                          *)
(* Each specification leaves the variables of the other parts unchanged.   *)
(***************************************************************************)
EXTENDS Integers, Sequences, FiniteSets, TLC

VARIABLES
    \* ---- SpecSplice
    spIn,        \* the arguments and the file text of one call
    spOut,       \* the result dict and the text of the file afterwards
    \* ---- SpecEditor
    fs,          \* the file system: path -> [kind, content, mtime]
    clock,       \* datetime.now()
    edpc,        \* position of the running replace_block_source call
    edArgs,      \* start_line, end_line, new_source
    edLoc,       \* locals: raw, mtime, lines, line_ending, backup_path, ...
    edResult,    \* what the call gave its caller: a dict or an exception
    edHist,      \* history of the running call (what it saw, who wrote)
    edCalls,     \* number of calls made
    extWrites,   \* number of modifications made by other processes
    \* ---- SpecServer
    heap,              \* the CodeNode objects
    node_lookup,       \* _Handler.node_lookup: node id -> object
    analyze_lock,      \* _Handler.analyze_lock: 0 or the thread that holds it
    cacheFile,         \* .codedocent_cache.json
    ollama,            \* the ollama package is installed
    thr,               \* the request threads
    lastResp,          \* the response sent last, with the request it answers
    reqCount,          \* requests received; stands for time.time()
    last_request_time, \* _Handler.last_request_time[0]
    shutdownStarted,   \* server.shutdown was started
    aiCalls,           \* per object: summarizer calls since the last replace
    nodeWrites,        \* node updates made by replaces so far
    replaces,          \* successful replaces so far
    \* ---- SpecBatch
    tree,        \* the CodeNode objects of the tree given to analyze()
    workers,     \* the workers argument
    cache,       \* the cache dict of the run (in memory)
    bCacheFile,  \* .codedocent_cache.json
    bpc,         \* position of analyze(), the main thread
    pending,     \* ai_nodes not yet taken up
    job,         \* per worker: position in _do_one, node, result
    futures,     \* pool: per submitted node, the state of its future
    bLog,        \* history: nodes started, summarizer calls, phases
    bTmpFile,    \* the temporary file of _save_cache
    bSaveHist,   \* history: the cache file when the save began, its outcome
    abandoned,   \* timed-out summarizer calls: still running or completed
    bRun,        \* number of the run of analyze()
    bPrevTree,   \* history: the tree as the previous run left it
    bDone,       \* history: per node, the outcomes its _do_one ended with
    \* ---- SpecIds
    idHeap,      \* the CodeNode objects
    idLookup,    \* _Handler.node_lookup: node id -> object
    idEdits,     \* successful replaces so far
    idPrev,      \* history: the tree and the table before the last replace
    \* ---- SpecFront
    frPc,        \* position of the request in _handle_replace
    frReq,       \* the request: node id, Content-Length, what the client sends
    frRaw,       \* the bytes read from the connection, then the parsed body
    frResp,      \* the answer sent
    frFx,        \* history: what was done for the request
    \* ---- SpecLife
    lfNow,       \* time.time(), in seconds since start_server was entered
    lfLast,      \* _Handler.last_request_time[0]
    lfMain,      \* position of the thread that runs start_server
    lfSrv,       \* the server object: __shutdown_request, __is_shut_down, ...
    lfWatch,     \* the idle watcher thread: position, end of its sleep
    lfCallers,   \* the threads that call server.shutdown()
    lfReq,       \* the POST /shutdown being handled
    lfHist,      \* history: requests seen, the watcher's decision, stops
    \* ---- SpecNode
    anLog,       \* history: the calls of analyze_single_node made
    \* ---- SpecCloud
    clPc,        \* position of the running cloud_chat call
    clCall,      \* the call: endpoint, what was resolved, sent and returned
    \* ---- SpecLock
    cache_lock,  \* the lock of _run_ai_batch: 0 or the worker that holds it
    lkWorkers,   \* the workers argument
    lkTree,      \* the selected nodes
    lkPending,   \* the nodes not yet taken up
    lkJob,       \* per worker: position in _do_one and its node
    lkEntries,   \* cache["entries"]
    lkHist,      \* history: calls per key, how each node ended, last access
    \* ---- SpecRange
    rgFile,      \* the file: for each line, the function it belongs to
    rgHeap,      \* the CodeNode objects
    rgLookup,    \* _Handler.node_lookup
    rgLock,      \* _Handler.analyze_lock: 0 or the thread that holds it
    rgThr,       \* the request threads
    rgHist,      \* history: the last write and the successful replaces
    \* ---- SpecBusy
    lfBusy       \* the analyze requests under way: waiting, in the analysis

edVars == <<fs, clock, edpc, edArgs, edLoc, edResult, edHist, edCalls, extWrites>>
spVars == <<spIn, spOut>>
srvVars == <<heap, node_lookup, analyze_lock, cacheFile, ollama, thr, lastResp,
             reqCount, last_request_time, shutdownStarted, aiCalls,
             nodeWrites, replaces>>
batchVars == <<tree, workers, cache, bCacheFile, bpc, pending, job, futures,
               bLog, bTmpFile, bSaveHist, abandoned, bRun, bPrevTree, bDone>>
idsVars == <<idHeap, idLookup, idEdits, idPrev>>
frontVars == <<frPc, frReq, frRaw, frResp, frFx>>
lifeVars == <<lfNow, lfLast, lfMain, lfSrv, lfWatch, lfCallers, lfReq, lfHist>>
cloudVars == <<clPc, clCall>>
lockVars == <<cache_lock, lkWorkers, lkTree, lkPending, lkJob, lkEntries,
              lkHist>>
rangeVars == <<rgFile, rgHeap, rgLookup, rgLock, rgThr, rgHist>>
moreVars == <<cloudVars, lockVars, rangeVars, lfBusy>>
auxVars == <<idsVars, frontVars, lifeVars, anLog, moreVars>>
vars == <<spIn, spOut, fs, clock, edpc, edArgs, edLoc, edResult, edHist,
          edCalls, extWrites, heap, node_lookup, analyze_lock, cacheFile,
          ollama, thr, lastResp, reqCount, last_request_time,
          shutdownStarted, aiCalls, nodeWrites, replaces, tree, workers,
          cache, bCacheFile, bpc, pending, job, futures, bLog, bTmpFile,
          bSaveHist, abandoned, bRun, bPrevTree, bDone, idHeap, idLookup,
          idEdits, idPrev, frPc, frReq, frRaw, frResp, frFx, lfNow, lfLast,
          lfMain, lfSrv, lfWatch, lfCallers, lfReq, lfHist, anLog, clPc,
          clCall, cache_lock, lkWorkers, lkTree, lkPending, lkJob,
          lkEntries, lkHist, rgFile, rgHeap, rgLookup, rgLock, rgThr,
          rgHist, lfBusy>>

\* what each part leaves alone
notSplice == <<edVars, srvVars, batchVars, auxVars>>
notEditor == <<spVars, srvVars, batchVars, auxVars>>
notServer == <<spVars, edVars, batchVars, auxVars>>
notBatch == <<spVars, edVars, srvVars, auxVars>>
notIds == <<spVars, edVars, srvVars, batchVars, frontVars, lifeVars, anLog,
           moreVars>>
notFront == <<spVars, edVars, srvVars, batchVars, idsVars, lifeVars, anLog,
             moreVars>>
notLife == <<spVars, edVars, srvVars, batchVars, idsVars, frontVars, anLog,
            moreVars>>
notNode == <<spVars, edVars, batchVars, idsVars, frontVars, lifeVars, moreVars>>
oldVars == <<spVars, edVars, srvVars, batchVars, idsVars, frontVars, lifeVars,
            anLog>>
notCloud == <<oldVars, lockVars, rangeVars, lfBusy>>
notLock == <<oldVars, cloudVars, rangeVars, lfBusy>>
notRange == <<oldVars, cloudVars, lockVars, lfBusy>>
notBusy == <<spVars, edVars, srvVars, batchVars, idsVars, frontVars, anLog,
            cloudVars, lockVars, rangeVars>>

\* the parts a specification does not run stay as they are here
SpliceIdle == spIn = <<>> /\ spOut = <<>>
EditorIdle ==
    /\ fs = <<>> /\ clock = 0 /\ edpc = "idle" /\ edArgs = <<>>
    /\ edLoc = <<>> /\ edResult = <<>> /\ edHist = <<>>
    /\ edCalls = 0 /\ extWrites = 0
ServerIdle ==
    /\ heap = <<>> /\ node_lookup = <<>> /\ analyze_lock = 0
    /\ cacheFile = <<>> /\ ollama = TRUE /\ thr = <<>> /\ lastResp = <<>>
    /\ reqCount = 0 /\ last_request_time = 0 /\ shutdownStarted = FALSE
    /\ aiCalls = <<>> /\ nodeWrites = 0 /\ replaces = 0
BatchIdle ==
    /\ tree = <<>> /\ workers = 0 /\ cache = <<>> /\ bCacheFile = <<>>
    /\ bpc = "idle" /\ pending = <<>> /\ job = <<>> /\ futures = <<>>
    /\ bLog = <<>> /\ bTmpFile = <<>> /\ bSaveHist = <<>> /\ abandoned = <<>>
    /\ bRun = 0 /\ bPrevTree = <<>> /\ bDone = <<>>
IdsIdle == idHeap = <<>> /\ idLookup = <<>> /\ idEdits = 0 /\ idPrev = <<>>
FrontIdle ==
    /\ frPc = "idle" /\ frReq = <<>> /\ frRaw = <<>> /\ frResp = <<>>
    /\ frFx = <<>>
LifeIdle ==
    /\ lfNow = 0 /\ lfLast = 0 /\ lfMain = "idle" /\ lfSrv = <<>>
    /\ lfWatch = <<>> /\ lfCallers = <<>> /\ lfReq = "none" /\ lfHist = <<>>
NodeIdle == anLog = <<>>
CloudIdle == clPc = "idle" /\ clCall = <<>>
LockIdle ==
    /\ cache_lock = 0 /\ lkWorkers = 0 /\ lkTree = <<>> /\ lkPending = <<>>
    /\ lkJob = <<>> /\ lkEntries = <<>> /\ lkHist = <<>>
RangeIdle ==
    /\ rgFile = <<>> /\ rgHeap = <<>> /\ rgLookup = <<>> /\ rgLock = 0
    /\ rgThr = <<>> /\ rgHist = <<>>
NoBusy == [waiting |-> 0, holder |-> 0, since |-> 0]
BusyIdle == lfBusy = NoBusy
MoreIdle == CloudIdle /\ LockIdle /\ RangeIdle /\ BusyIdle
AuxIdle == IdsIdle /\ FrontIdle /\ LifeIdle /\ NodeIdle /\ MoreIdle
OldIdle ==
    /\ SpliceIdle /\ EditorIdle /\ ServerIdle /\ BatchIdle /\ IdsIdle
    /\ FrontIdle /\ LifeIdle /\ NodeIdle

----------------------------------------------------------------------------
(* Bounds *)
MaxFileLen == 3        \* characters of the file text in SpecSplice
MaxNewLen == 2         \* characters of new_source in SpecSplice
MaxLine == 3           \* largest start_line / end_line in SpecSplice
EdMaxLine == 2         \* largest start_line / end_line in SpecEditor
MaxCalls == 2          \* calls of replace_block_source in SpecEditor
MaxExtWrites == 1      \* modifications by other processes in SpecEditor
MaxClock == 1          \* distinct timestamps datetime.now() can return
NumThreads == 2        \* request threads alive at the same time
MaxRequests == 2       \* requests received by the server
MaxReplaces == 1       \* successful replaces
MaxWorkers == 2        \* the largest workers argument of a batch run
MaxAbandoned == 1      \* timed-out calls whose later completion is followed

----------------------------------------------------------------------------
(* Text: a str is a sequence of characters.  CR, LF and FF are line        *)
(* boundaries of str.splitlines (FF stands for the boundaries other than   *)
(* CR and LF, such as vertical tab and form feed); BAD is a byte          *)
(* that is not valid UTF-8.                                                *)
CR == "CR"
LF == "LF"
FF == "FF"
BAD == "BAD"
Letter == "a"
NotAStr == <<"not a str">>

StrChars == {Letter, CR, LF, FF}
ByteChars == StrChars \cup {BAD}

RECURSIVE SeqsUpTo(_, _)
SeqsUpTo(S, n) ==
    IF n = 0 THEN {<<>>}
    ELSE LET shorter == SeqsUpTo(S, n - 1)
         IN  shorter \cup {Append(t, c) : t \in shorter, c \in S}

RECURSIVE Join(_)
Join(ls) == IF ls = <<>> THEN <<>> ELSE Head(ls) \o Join(Tail(ls))

\* str.splitlines(True): the lines of text, each with its line boundary
RECURSIVE SplitFrom(_, _, _)
SplitFrom(text, i, cur) ==
    IF i > Len(text) THEN (IF cur = <<>> THEN <<>> ELSE <<cur>>)
    ELSE IF text[i] = CR /\ i < Len(text) /\ text[i + 1] = LF
         THEN <<cur \o <<CR, LF>>>> \o SplitFrom(text, i + 2, <<>>)
    ELSE IF text[i] \in {CR, LF, FF}
         THEN <<Append(cur, text[i])>> \o SplitFrom(text, i + 1, <<>>)
    ELSE SplitFrom(text, i + 1, Append(cur, text[i]))

splitlines(text) == SplitFrom(text, 1, <<>>)

\* ln.rstrip("\r\n"): drop every trailing CR and LF
RECURSIVE rstrip(_)
rstrip(ln) ==
    IF ln # <<>> /\ ln[Len(ln)] \in {CR, LF}
    THEN rstrip(SubSeq(ln, 1, Len(ln) - 1))
    ELSE ln

\* raw.decode("utf-8") raises UnicodeDecodeError on an invalid byte
DecodeFails(raw) == \E i \in 1..Len(raw) : raw[i] = BAD

crlf_count(text) ==
    Cardinality({i \in 1..(Len(text) - 1) : text[i] = CR /\ text[i + 1] = LF})
lf_count(text) ==
    Cardinality({i \in 1..Len(text) : text[i] = LF}) - crlf_count(text)
line_ending(text) ==
    IF crlf_count(text) > lf_count(text) THEN <<CR, LF>> ELSE <<LF>>

\* the replacement lines built by replace_block_source
new_lines(new_source, ending) ==
    IF new_source = <<>> THEN <<>>
    ELSE LET raw_lines == splitlines(new_source)
         IN  [k \in 1..Len(raw_lines) |-> rstrip(raw_lines[k]) \o ending]

\* lines[start_line - 1:end_line] = new_lines
SpliceLines(lines, s, e, nl) ==
    SubSeq(lines, 1, s - 1) \o nl \o SubSeq(lines, e + 1, Len(lines))

(* Error strings *)
ErrNotStr == "new_source must be a string"
ErrNotFound == "File not found"
ErrRange == "Invalid line range"
ErrUtf8 == "File is not valid UTF-8 text"
ErrTooLong == "end_line exceeds file length"
ErrModified == "File was modified externally since last read"
ErrNoBackupPath == "Cannot create unique backup path"
ErrBackupMissing == "Backup creation failed"
ErrIO == "OSError"

Failure(err) == [status |-> "returned", success |-> FALSE, error |-> err,
                 lines_before |-> 0, lines_after |-> 0]
Success(before, after) ==
    [status |-> "returned", success |-> TRUE, error |-> "",
     lines_before |-> before, lines_after |-> after]
Raised(err) == [status |-> "raised", success |-> FALSE, error |-> err,
                lines_before |-> 0, lines_after |-> 0]
NoResult == [status |-> "none", success |-> FALSE, error |-> "",
             lines_before |-> 0, lines_after |-> 0]

\* the range test of _read_and_validate
BadRange(s, e) == s < 1 \/ e < 1 \/ s > e

----------------------------------------------------------------------------
(* SpecSplice: replace_block_source on a readable file, no failure and no  *)
(* other writer, as a function from (file text, start_line, end_line,      *)
(* new_source) to (result, file text).                                     *)

replace_pure(text, s, e, src) ==
    IF src = NotAStr THEN [res |-> Failure(ErrNotStr), text |-> text]
    ELSE IF BadRange(s, e) THEN [res |-> Failure(ErrRange), text |-> text]
    ELSE IF DecodeFails(text) THEN [res |-> Failure(ErrUtf8), text |-> text]
    ELSE LET lines == splitlines(text)
             nl == new_lines(src, line_ending(text))
         IN  IF e > Len(lines)
             THEN [res |-> Failure(ErrTooLong), text |-> text]
             ELSE [res |-> Success(e - s + 1, Len(nl)),
                   text |-> Join(SpliceLines(lines, s, e, nl))]

SpliceInputs ==
    /\ spIn \in [text : SeqsUpTo(ByteChars, MaxFileLen),
                 s : 0..MaxLine, e : 0..MaxLine,
                 src : SeqsUpTo(StrChars, MaxNewLen) \cup {NotAStr}]
    /\ spOut = [done |-> FALSE, res |-> NoResult, text |-> <<>>]

SpliceApply ==
    /\ ~spOut.done
    /\ LET r == replace_pure(spIn.text, spIn.s, spIn.e, spIn.src)
       IN  spOut' = [done |-> TRUE, res |-> r.res, text |-> r.text]
    /\ UNCHANGED spIn
    /\ UNCHANGED notSplice

----------------------------------------------------------------------------
(* SpecEditor: the file system and one caller of replace_block_source.     *)

MaxBackupSuffix == 99      \* for i in range(1, 100)

Target == <<"target", 0, 0>>                 \* filepath
TmpPath == <<"tmp", 0, 0>>                   \* NamedTemporaryFile(dir=parent_dir)
Bak(ts, n) == <<"bak", ts, n>>               \* filepath.bak.<ts>[.<n>]

File(content, mtime) == [kind |-> "file", content |-> content, mtime |-> mtime]
Symlink == [kind |-> "symlink", content |-> <<Letter>>, mtime |-> 0]

Put(f, p, v) == [q \in (DOMAIN f) \cup {p} |-> IF q = p THEN v ELSE f[q]]
Remove(f, p) == [q \in (DOMAIN f) \ {p} |-> f[q]]
Absent == <<"absent">>
ContentOf(f, p) == IF p \in DOMAIN f THEN f[p].content ELSE Absent

\* file texts, replacement texts and the text another process writes
EdTexts == { <<Letter, LF, Letter>>, <<Letter, CR, LF>>, <<BAD>> }
EdNewSources == { <<>>, <<Letter, CR, LF, Letter>>, NotAStr }
ExtTexts == { <<Letter, Letter, LF>> }

\* files and symlinks already present at candidate backup paths
PreExisting(k) ==
    [p \in {Bak(0, n) : n \in 0..(k - 1)} |->
        IF p[3] = 0 THEN Symlink ELSE File(<<Letter>>, 0)]

NoLocals == [raw |-> <<>>, mtime |-> 0, lines |-> <<>>, ending |-> <<LF>>,
             new_count |-> 0, backup_path |-> Target, written |-> 0]
NoHist == [fsAtCall |-> <<>>, lastOther |-> Absent, extAfterRead |-> FALSE,
           faulted |-> FALSE, preWrite |-> Absent]

InitEditor ==
    /\ SpliceIdle /\ ServerIdle /\ BatchIdle /\ AuxIdle
    /\ \E k \in {0, 1, MaxBackupSuffix + 1} :
         \/ fs = PreExisting(k)
         \/ \E t \in EdTexts : fs = Put(PreExisting(k), Target, File(t, 0))
    /\ clock = 0 /\ edpc = "idle"
    /\ edArgs = [start_line |-> 0, end_line |-> 0, new_source |-> <<>>]
    /\ edLoc = NoLocals /\ edResult = NoResult /\ edHist = NoHist
    /\ edCalls = 0 /\ extWrites = 0

Return(r) == edResult' = r /\ edpc' = "done"
Faulted == edHist' = [edHist EXCEPT !.faulted = TRUE]

\* the positions between the read of the content and the write
AfterRead == {"stat", "mtime_check", "backup_create", "backup_copy",
              "backup_verify", "tmp_create", "tmp_write", "replace"}

\* where the new content is written before it is moved over the file
WritePathDirect == Target
WritePath == TmpPath

\* replace_block_source is called
EdCall(s, e, src) ==
    /\ edpc \in {"idle", "done"}
    /\ edCalls < MaxCalls
    /\ edCalls' = edCalls + 1
    /\ edArgs' = [start_line |-> s, end_line |-> e, new_source |-> src]
    /\ edLoc' = NoLocals
    /\ edResult' = NoResult
    /\ edHist' = [NoHist EXCEPT !.fsAtCall = fs,
                                !.lastOther = ContentOf(fs, Target)]
    /\ edpc' = "check"
    /\ UNCHANGED <<fs, clock, extWrites>>
    /\ UNCHANGED notEditor

\* isinstance(new_source, str); os.path.isfile; the range test
EdCheck ==
    /\ edpc = "check"
    /\ IF edArgs.new_source = NotAStr THEN Return(Failure(ErrNotStr))
       ELSE IF Target \notin DOMAIN fs THEN Return(Failure(ErrNotFound))
       ELSE IF BadRange(edArgs.start_line, edArgs.end_line)
            THEN Return(Failure(ErrRange))
       ELSE edpc' = "read" /\ UNCHANGED edResult
    /\ UNCHANGED <<fs, clock, edArgs, edLoc, edHist, edCalls, extWrites>>
    /\ UNCHANGED notEditor

\* with open(filepath, "rb") as f: raw = f.read()
EdRead ==
    /\ edpc = "read"
    /\ edLoc' = [edLoc EXCEPT !.raw = fs[Target].content]
    /\ edpc' = "stat"
    /\ UNCHANGED <<fs, clock, edArgs, edResult, edHist, edCalls, extWrites>>
    /\ UNCHANGED notEditor

\* open or read raises OSError: outside every try of replace_block_source
EdReadFails ==
    /\ edpc = "read"
    /\ Return(Raised(ErrIO))
    /\ Faulted
    /\ UNCHANGED <<fs, clock, edArgs, edLoc, edCalls, extWrites>>
    /\ UNCHANGED notEditor

\* mtime = os.stat(filepath).st_mtime; decode; line ending; splitlines;
\* the end_line test; then the replacement lines are spliced in
EdStat ==
    /\ edpc = "stat"
    /\ LET raw == edLoc.raw
           lines == splitlines(raw)
           ending == line_ending(raw)
           nl == new_lines(edArgs.new_source, ending)
       IN  IF DecodeFails(raw)
           THEN Return(Failure(ErrUtf8)) /\ UNCHANGED edLoc
           ELSE IF edArgs.end_line > Len(lines)
           THEN Return(Failure(ErrTooLong)) /\ UNCHANGED edLoc
           ELSE /\ edLoc' = [edLoc EXCEPT
                     !.mtime = fs[Target].mtime,
                     !.ending = ending,
                     !.new_count = Len(nl),
                     !.lines = SpliceLines(lines, edArgs.start_line,
                                           edArgs.end_line, nl)]
                /\ edpc' = "mtime_check"
                /\ UNCHANGED edResult
    /\ UNCHANGED <<fs, clock, edArgs, edHist, edCalls, extWrites>>
    /\ UNCHANGED notEditor

\* os.stat raises OSError in _read_and_validate: not caught either
EdStatFails ==
    /\ edpc = "stat"
    /\ Return(Raised(ErrIO))
    /\ Faulted
    /\ UNCHANGED <<fs, clock, edArgs, edLoc, edCalls, extWrites>>
    /\ UNCHANGED notEditor

\* if os.stat(filepath).st_mtime != mtime: raise OSError(...)
EdMtimeCheck ==
    /\ edpc = "mtime_check"
    /\ IF fs[Target].mtime # edLoc.mtime
       THEN Return(Failure(ErrModified))
       ELSE edpc' = "backup_create" /\ UNCHANGED edResult
    /\ UNCHANGED <<fs, clock, edArgs, edLoc, edHist, edCalls, extWrites>>
    /\ UNCHANGED notEditor

\* the backup path: the first candidate that os.open(O_CREAT | O_EXCL |
\* O_NOFOLLOW) can create
EdBackupCreate ==
    /\ edpc = "backup_create"
    /\ LET free == {n \in 0..MaxBackupSuffix : Bak(clock, n) \notin DOMAIN fs}
       IN  IF free = {}
           THEN Return(Failure(ErrNoBackupPath)) /\ UNCHANGED <<fs, edLoc>>
           ELSE LET n == CHOOSE m \in free : \A o \in free : m <= o
                IN  /\ fs' = Put(fs, Bak(clock, n), File(<<>>, 0))
                    /\ edLoc' = [edLoc EXCEPT !.backup_path = Bak(clock, n)]
                    /\ edpc' = "backup_copy"
                    /\ UNCHANGED edResult
    /\ UNCHANGED <<clock, edArgs, edHist, edCalls, extWrites>>
    /\ UNCHANGED notEditor

\* shutil.copy2(filepath, backup_path)
EdBackupCopy ==
    /\ edpc = "backup_copy"
    /\ fs' = Put(fs, edLoc.backup_path,
                 File(fs[Target].content, fs[Target].mtime))
    /\ edpc' = "backup_verify"
    /\ UNCHANGED <<clock, edArgs, edLoc, edResult, edHist, edCalls, extWrites>>
    /\ UNCHANGED notEditor

\* if not os.path.exists(backup_path): raise OSError(...)
EdBackupVerify ==
    /\ edpc = "backup_verify"
    /\ IF edLoc.backup_path \notin DOMAIN fs
       THEN Return(Failure(ErrBackupMissing))
       ELSE edpc' = "tmp_create" /\ UNCHANGED edResult
    /\ UNCHANGED <<fs, clock, edArgs, edLoc, edHist, edCalls, extWrites>>
    /\ UNCHANGED notEditor

\* fd = tempfile.NamedTemporaryFile(mode="wb", dir=parent_dir, delete=False)
EdTmpCreate ==
    /\ edpc = "tmp_create"
    /\ fs' = Put(fs, WritePath, File(<<>>, 0))
    /\ edLoc' = [edLoc EXCEPT !.written = 0]
    /\ edpc' = "tmp_write"
    /\ UNCHANGED <<clock, edArgs, edResult, edHist, edCalls, extWrites>>
    /\ UNCHANGED notEditor

\* for line in lines: fd.write(line.encode("utf-8"))
EdTmpWrite ==
    /\ edpc = "tmp_write"
    /\ edLoc.written < Len(edLoc.lines)
    /\ fs' = [fs EXCEPT ![WritePath].content =
                 @ \o edLoc.lines[edLoc.written + 1]]
    /\ edLoc' = [edLoc EXCEPT !.written = @ + 1]
    /\ UNCHANGED <<clock, edpc, edArgs, edResult, edHist, edCalls, extWrites>>
    /\ UNCHANGED notEditor

\* fd.flush(); os.fsync(fd.fileno()); fd.close()
EdTmpClose ==
    /\ edpc = "tmp_write"
    /\ edLoc.written = Len(edLoc.lines)
    /\ edpc' = "replace"
    /\ UNCHANGED <<fs, clock, edArgs, edLoc, edResult, edHist, edCalls,
                   extWrites>>
    /\ UNCHANGED notEditor

\* orig_mode = os.stat(filepath).st_mode; os.chmod; os.replace(tmp_path,
\* filepath); return {"success": True, ...}
EdReplace ==
    /\ edpc = "replace"
    /\ edHist' = [edHist EXCEPT !.preWrite = fs[Target].content]
    /\ fs' = Put(Remove(fs, WritePath), Target,
                 File(fs[WritePath].content, fs[Target].mtime + 1))
    /\ Return(Success(edArgs.end_line - edArgs.start_line + 1,
                      edLoc.new_count))
    /\ UNCHANGED <<clock, edArgs, edLoc, edCalls, extWrites>>
    /\ UNCHANGED notEditor

\* OSError in _write_with_backup before the temporary file exists (os.stat,
\* os.open, shutil.copy2, NamedTemporaryFile): except OSError returns it
EdBackupFails ==
    /\ edpc \in {"mtime_check", "backup_create", "backup_copy", "tmp_create"}
    /\ Return(Failure(ErrIO))
    /\ Faulted
    /\ UNCHANGED <<fs, clock, edArgs, edLoc, edCalls, extWrites>>
    /\ UNCHANGED notEditor

\* an exception while the temporary file is written or moved:
\* except BaseException: fd.close(); os.unlink(tmp_path); raise
EdWriteFails ==
    /\ edpc \in {"tmp_write", "replace"}
    /\ fs' = Remove(fs, WritePath)
    /\ Return(Failure(ErrIO))
    /\ Faulted
    /\ UNCHANGED <<clock, edArgs, edLoc, edCalls, extWrites>>
    /\ UNCHANGED notEditor

\* another process modifies the file
ExtModify(t) ==
    /\ Target \in DOMAIN fs
    /\ extWrites < MaxExtWrites
    /\ extWrites' = extWrites + 1
    /\ fs' = [fs EXCEPT ![Target] = File(t, @.mtime + 1)]
    /\ edHist' = [edHist EXCEPT
                     !.lastOther = t,
                     !.extAfterRead = @ \/ edpc \in AfterRead]
    /\ UNCHANGED <<clock, edpc, edArgs, edLoc, edResult, edCalls>>
    /\ UNCHANGED notEditor

\* the backup disappears before it is verified
ExtUnlinkBackup ==
    /\ edpc = "backup_verify"
    /\ edLoc.backup_path \in DOMAIN fs
    /\ fs' = Remove(fs, edLoc.backup_path)
    /\ UNCHANGED <<clock, edpc, edArgs, edLoc, edResult, edHist, edCalls,
                   extWrites>>
    /\ UNCHANGED notEditor

\* time passes
Tick ==
    /\ clock < MaxClock
    /\ clock' = clock + 1
    /\ UNCHANGED <<fs, edpc, edArgs, edLoc, edResult, edHist, edCalls,
                   extWrites>>
    /\ UNCHANGED notEditor

NextEditor ==
    \/ \E s \in 0..EdMaxLine, e \in 0..EdMaxLine, src \in EdNewSources :
         EdCall(s, e, src)
    \/ EdCheck \/ EdRead \/ EdReadFails \/ EdStat \/ EdStatFails
    \/ EdMtimeCheck \/ EdBackupCreate \/ EdBackupCopy \/ EdBackupVerify
    \/ EdTmpCreate \/ EdTmpWrite \/ EdTmpClose \/ EdReplace
    \/ EdBackupFails \/ EdWriteFails
    \/ \E t \in ExtTexts : ExtModify(t)
    \/ ExtUnlinkBackup
    \/ Tick

SpecEditor == InitEditor /\ [][NextEditor]_vars

NextSplice == SpliceApply
InitSplice ==
    SpliceInputs /\ EditorIdle /\ ServerIdle /\ BatchIdle /\ AuxIdle
SpecSplice == InitSplice /\ [][NextSplice]_vars

----------------------------------------------------------------------------
(* Claims about the source editor *)

\* the errors that end a call before it reaches the write
OtherFailures == {ErrUtf8, ErrTooLong, ErrNoBackupPath, ErrBackupMissing, ErrIO}

\* C4: when another process modifies the file between the editor's read of
\* its content and the editor's write, the call fails with the 'modified
\* externally' error (unless another failure ended it first) and the file
\* still holds what the other process wrote.
C4_ExternalModificationDetected ==
    (edpc = "done" /\ edHist.extAfterRead) =>
        /\ ~edResult.success
        /\ edResult.error \in {ErrModified} \cup OtherFailures
        /\ ContentOf(fs, Target) = edHist.lastOther

\* C5: while a call runs and after it, the file holds either the complete
\* content it had without the call (the original, or what another process
\* wrote) or, only once the call has succeeded, the complete new content; so
\* a call that fails at any step leaves the content as it was.
C5_AtomicWrite ==
    edpc # "idle" =>
        \/ ContentOf(fs, Target) = edHist.lastOther
        \/ /\ edpc = "done" /\ edResult.success
           /\ ContentOf(fs, Target) = Join(edLoc.lines)

\* a call that failed while the new content was half written
C5_Witness ==
    /\ edpc = "done" /\ edResult.status = "returned" /\ ~edResult.success
    /\ edResult.error = ErrIO
    /\ edLoc.written >= 1 /\ edLoc.written < Len(edLoc.lines)

\* the line boundary of a line of new_source, whatever it is, removed
StripBoundary(ln) ==
    IF Len(ln) >= 2 /\ ln[Len(ln) - 1] = CR /\ ln[Len(ln)] = LF
    THEN SubSeq(ln, 1, Len(ln) - 2)
    ELSE IF ln # <<>> /\ ln[Len(ln)] \in {CR, LF, FF}
    THEN SubSeq(ln, 1, Len(ln) - 1)
    ELSE ln

\* CRLF when the CRLF pairs outnumber the LF not preceded by CR, LF otherwise
DominantEnding(text) ==
    LET pairs == {i \in 1..Len(text) :
                     text[i] = LF /\ i > 1 /\ text[i - 1] = CR}
        bare == {i \in 1..Len(text) :
                     text[i] = LF /\ (i = 1 \/ text[i - 1] # CR)}
    IN  IF Cardinality(pairs) > Cardinality(bare) THEN <<CR, LF>> ELSE <<LF>>

\* C6: a successful replace of lines [s,e] by T leaves the file equal to the
\* original lines [1,s-1], then T's lines each terminated by the file's
\* dominant line ending whatever ending T used, then the original lines
\* [e+1,end]; lines_before = e-s+1 and lines_after = number of lines of T.
C6_RoundTrip ==
    (spOut.done /\ spOut.res.success) =>
        LET orig == splitlines(spIn.text)
            T == splitlines(spIn.src)
            eol == DominantEnding(spIn.text)
        IN  /\ spOut.text =
                  Join(SubSeq(orig, 1, spIn.s - 1))
                  \o Join([k \in 1..Len(T) |-> StripBoundary(T[k]) \o eol])
                  \o Join(SubSeq(orig, spIn.e + 1, Len(orig)))
            /\ spOut.res.lines_before = spIn.e - spIn.s + 1
            /\ spOut.res.lines_after = Len(T)

\* C7: after a successful replace the backup path is a .bak.<timestamp>[.<n>]
\* path that did not exist before the call, the backup's content equals the
\* file's content immediately before the write, and whatever was at a backup
\* path before the call is unchanged.
C7_BackupIntegrity ==
    (edpc = "done" /\ edResult.success) =>
        LET bp == edLoc.backup_path
        IN  /\ bp[1] = "bak"
            /\ bp \in DOMAIN fs
            /\ bp \notin DOMAIN edHist.fsAtCall
            /\ fs[bp].content = edHist.preWrite
            /\ \A p \in DOMAIN edHist.fsAtCall :
                   p[1] = "bak" => (p \in DOMAIN fs /\ fs[p] = edHist.fsAtCall[p])

\* C8: replace_block_source never raises: every call ends by returning a
\* result, and a call that did not succeed returns success = False with an
\* error string.
C8_NeverRaises ==
    edpc = "done" =>
        /\ edResult.status = "returned"
        /\ ~edResult.success => edResult.error # ""

----------------------------------------------------------------------------
(* SpecServer: the interactive server.  Every request is handled on its    *)
(* own thread (ThreadingTCPServer); the threads share the _Handler class   *)
(* state: the node objects, node_lookup, the analysis lock, the cache.     *)

\* a summary: what kind it is and the values put into its text
Summ(kind, type, n, names) ==
    [kind |-> kind, type |-> type, n |-> n, names |-> names]
None == Summ("None", "", 0, <<>>)
CsrfToken == "tok"                     \* secrets.token_urlsafe(32)
Tokens == {CsrfToken, "bad", ""}       \* "" is a missing header
ErrCsrf == "Invalid or missing CSRF token"
Model == "m"                           \* _Handler.model

Threads == 1..NumThreads

\* the tree: directory d > file f > function g; an object is a node id
\* with the number of re-parses that preceded its creation
DirId == "d"
FileId == "f"
FuncId == "g"
SevereId == "k"                        \* a function the scorers find severe
NodeIds == {DirId, FileId, FuncId}
RequestIds == NodeIds \cup {"zz"}      \* "zz" is not in node_lookup
Obj(id, gen) == <<id, gen>>
NoObj == <<"-", 0>>

Src3 == <<Letter, LF, Letter, LF, Letter, LF>>      \* three lines
Src1 == <<Letter, LF>>                              \* one line
SrcU == <<Letter>>                                  \* one line, unterminated
NewSources == {SrcU, Src3}

Node(name, type, s, e, src, kids) ==
    [name |-> name, node_type |-> type, filepath |-> "f.py",
     start_line |-> s, end_line |-> e, line_count |-> e - s + 1,
     source |-> src, summary |-> None, pseudocode |-> "None",
     quality |-> "None", children |-> kids]

InitHeap ==
    (Obj(DirId, 0) :> [Node(DirId, "directory", 1, 0, <<>>, <<Obj(FileId, 0)>>)
                          EXCEPT !.start_line = 0, !.line_count = 3])
    @@ (Obj(FileId, 0) :> Node(FileId, "file", 1, 3, Src3, <<Obj(FuncId, 0)>>))
    @@ (Obj(FuncId, 0) :> Node(FuncId, "function", 1, 3, Src3, <<>>))

\* assign_node_ids: the lookup table of the tree under the root; the id is
\* the hash of the chain of (type, name) from the root
RECURSIVE WalkIds(_, _)
WalkIds(h, o) ==
    LET kids == h[o].children
        sub[k \in 0..Len(kids)] ==
            IF k = 0 THEN (o[1] :> o) ELSE WalkIds(h, kids[k]) @@ sub[k - 1]
    IN  sub[Len(kids)]
assign_node_ids(h) == WalkIds(h, Obj(DirId, 0))

\* requests: the path is the sequence of its segments; requests with a
\* wrong or missing token name one node only
IdsFor(token) == IF token = CsrfToken THEN RequestIds ELSE {FuncId}
SrcsFor(token) == IF token = CsrfToken THEN NewSources ELSE {Src1}
Requests ==
    UNION {
      [method : {"GET"}, token : {tok}, src : {<<>>},
       path : {<<>>, <<"api", "tree">>, <<"api", "zz">>, <<"zz">>}
              \cup {<<"api", "source", i>> : i \in IdsFor(tok) \ {DirId, FileId}}]
      \cup
      [method : {"POST"}, token : {tok}, src : {<<>>},
       path : {<<"shutdown">>, <<"zz">>}
              \cup {<<"api", "analyze", i>> : i \in IdsFor(tok)}]
      \cup
      [method : {"POST"}, token : {tok}, src : SrcsFor(tok),
       path : {<<"api", "replace", i>> : i \in IdsFor(tok)}]
      : tok \in Tokens }

\* path.startswith("/a/b/")
StartsWith(path, prefix) ==
    Len(path) > Len(prefix) /\ SubSeq(path, 1, Len(prefix)) = prefix

NoReq == [method |-> "-", token |-> "", src |-> <<>>, path |-> <<>>]
NoDict == [start_line |-> 0, end_line |-> 0, line_count |-> 0,
           summary |-> None, source |-> <<>>, seen0 |-> 0, seen1 |-> 0,
           seen2 |-> 0]
IdleThread == [pc |-> "idle", req |-> NoReq, node |-> NoObj, ops |-> {},
               result |-> NoResult, newText |-> <<>>, stale |-> FALSE,
               locked |-> FALSE, dict |-> NoDict, old_key |-> <<>>,
               saved |-> FALSE]
NoResp == [req |-> NoReq, status |-> 0, error |-> "", ops |-> {},
           node |-> NoObj, locked |-> FALSE, dict |-> NoDict]

\* _cache_key: filepath::name::md5(source); the hash is taken as injective
cache_key_by_name(n) == <<n.filepath, n.name, <<>> >>
cache_key(n) == <<n.filepath, n.name, n.source>>

EmptyCache(model) == [model |-> model, entries |-> <<>>]

\* _cache_model_id: the model name, or cloud:<provider>:<model> for a cloud
\* back end
cache_model_id(model, ai_config) ==
    IF ai_config.backend = "cloud"
    THEN "cloud:" \o ai_config.provider \o ":" \o ai_config.model
    ELSE model

\* if cache.get("model") != model_id: cache = {..., "entries": {}}
keep_other_model(loaded) == loaded
discard_other_model(loaded) ==
    IF loaded.model # Model THEN EmptyCache(Model) ELSE loaded

\* a cache file left by a run with a cloud back end and a model of the same
\* name: it holds an entry for the function g as it is now
StaleEntry == [summary |-> Summ("summary of another model", "", 0, <<>>),
               pseudocode |-> "pseudocode"]
StaleCache ==
    [model |-> cache_model_id(Model, [backend |-> "cloud", provider |-> "p",
                                      model |-> Model]),
     entries |-> (cache_key(InitHeap[Obj(FuncId, 0)]) :> StaleEntry)]

InitServer ==
    /\ SpliceIdle /\ EditorIdle /\ BatchIdle /\ AuxIdle
    /\ heap = InitHeap
    /\ node_lookup = assign_node_ids(InitHeap)
    /\ analyze_lock = 0
    /\ cacheFile = StaleCache
    /\ ollama \in BOOLEAN
    /\ thr = [t \in Threads |-> IdleThread]
    /\ lastResp = NoResp
    /\ reqCount = 0 /\ last_request_time = 0
    /\ shutdownStarted = FALSE
    /\ aiCalls = [o \in DOMAIN InitHeap |-> 0]
    /\ nodeWrites = 0 /\ replaces = 0

\* the response is sent and the thread ends
Respond(t, req, status, error, ops) ==
    /\ lastResp' = [req |-> req, status |-> status, error |-> error,
                    ops |-> ops, node |-> thr[t].node,
                    locked |-> thr[t].locked, dict |-> thr[t].dict]
    /\ thr' = [thr EXCEPT ![t] = IdleThread]

Goto(t, pc) == thr' = [thr EXCEPT ![t].pc = pc]

\* token != _Handler.csrf_token
TokenAlwaysOk(token) == FALSE
TokenRejected(token) == token # CsrfToken

\* do_GET / do_POST up to the handler call: _touch, the token test, routing
Route(req) ==
    IF req.method = "GET" THEN
        IF req.path = <<>> THEN "html"
        ELSE IF StartsWith(req.path, <<"api">>)
        THEN IF TokenRejected(req.token) THEN "csrf"
             ELSE IF req.path = <<"api", "tree">> THEN "tree"
             ELSE IF StartsWith(req.path, <<"api", "source">>) THEN "source"
             ELSE "404"
        ELSE "404"
    ELSE
        IF TokenRejected(req.token) THEN "csrf"
        ELSE IF req.path = <<"shutdown">> THEN "shutdown"
        ELSE IF StartsWith(req.path, <<"api", "analyze">>) THEN "analyze"
        ELSE IF StartsWith(req.path, <<"api", "replace">>) THEN "replace"
        ELSE "404"

NodeIdOf(req) == req.path[3]

MIN_LINES_FOR_AI == 3

below_min_lines_but_one(n) == n.line_count < MIN_LINES_FOR_AI - 1

\* the min-lines guard of analyze_single_node and of _do_one
below_min_lines(n) == n.line_count < MIN_LINES_FOR_AI

\* _score_quality: None for a directory; the scorers (radon, tree-sitter)
\* are libraries, here one fixed function of the node's source
score_quality(n) ==
    IF n.node_type = "directory" THEN "None"
    ELSE IF n.name = SevereId THEN "warning"
    ELSE IF Len(splitlines(n.source)) > MIN_LINES_FOR_AI THEN "complex"
    ELSE "clean"

\* what one summarizer call can do
AiOutcomes == {"ok", "garbage", "timeout", "error", "crash"}

\* _summarize_directory
summarize_directory(h, n) ==
    LET files == SelectSeq(n.children, LAMBDA c : h[c].node_type = "file")
        dirs == SelectSeq(n.children, LAMBDA c : h[c].node_type = "directory")
        names(cs) == [k \in 1..Len(cs) |-> h[cs[k]].name]
        worst == IF \E k \in 1..Len(n.children) :
                        h[n.children[k]].quality = "warning" THEN "warning"
                 ELSE IF \E k \in 1..Len(n.children) :
                        h[n.children[k]].quality = "complex" THEN "complex"
                 ELSE "clean"
    IN  [n EXCEPT
            !.summary = IF n.children = <<>>
                        THEN Summ("Empty directory", "", 0, <<>>)
                        ELSE Summ("Contains", "", Len(files),
                                  names(files) \o names(dirs)),
            !.quality = worst]

\* analyze_single_node(node, model, cache_dir), with the outcome of the
\* summarizer call if it is made and whether _save_cache could write
analyze_single_node(h, n, outcome, saved) ==
    LET keep(m) == [node |-> m, cache |-> cacheFile, called |-> FALSE,
                    raised |-> FALSE, loaded |-> FALSE]
        scored == [n EXCEPT !.quality = score_quality(n)]
        loaded == discard_other_model(cacheFile)
        key == cache_key(n)
        ai(summary, pseudocode) ==
            [scored EXCEPT !.summary = summary, !.pseudocode = pseudocode]
        entry(kind) == [summary |-> Summ(kind, "", 0, <<>>),
                        pseudocode |-> "pseudocode"]
        stored(kind) ==
            IF saved
            THEN [loaded EXCEPT !.entries = (key :> entry(kind)) @@ @]
            ELSE cacheFile
    IN  IF ~ollama
        THEN keep([n EXCEPT !.summary = Summ("AI unavailable", "", 0, <<>>)])
        ELSE IF below_min_lines(n)
        THEN keep([scored EXCEPT
                      !.summary = Summ("Small", n.node_type, n.line_count, <<>>)])
        ELSE IF n.node_type = "directory"
        THEN keep(summarize_directory(h, scored))
        ELSE IF key \in DOMAIN loaded.entries
        THEN [keep(ai(loaded.entries[key].summary,
                      loaded.entries[key].pseudocode))
                EXCEPT !.loaded = TRUE]
        ELSE CASE outcome = "ok" ->
                   [node |-> ai(Summ("AI summary", "", 0, <<>>), "pseudocode"),
                    cache |-> stored("AI summary"),
                    called |-> TRUE, raised |-> FALSE,
                    loaded |-> TRUE]
               [] outcome = "garbage" ->
                   [node |-> ai(Summ("Could not generate summary", "", 0, <<>>),
                                "pseudocode"),
                    cache |-> stored("Could not generate summary"),
                    called |-> TRUE, raised |-> FALSE,
                    loaded |-> TRUE]
               [] outcome = "timeout" ->
                   [node |-> [scored EXCEPT
                                 !.summary = Summ("Summary timed out", "", 0, <<>>)],
                    cache |-> cacheFile, called |-> TRUE, raised |-> FALSE,
                    loaded |-> TRUE]
               [] outcome = "error" ->
                   [node |-> [scored EXCEPT
                       !.summary = Summ("Summary generation failed", "", 0, <<>>)],
                    cache |-> cacheFile, called |-> TRUE, raised |-> FALSE,
                    loaded |-> TRUE]
               [] OTHER ->
                   [node |-> scored, cache |-> cacheFile, called |-> TRUE,
                    raised |-> TRUE, loaded |-> TRUE]

\* a request arrives: do_GET / do_POST call _touch, test the token and route
SrvReceive(t, req) ==
    /\ thr[t].pc = "idle"
    /\ reqCount < MaxRequests
    /\ reqCount' = reqCount + 1
    /\ last_request_time' = reqCount + 1
    /\ LET r == Route(req)
       IN  /\ CASE r = "csrf" -> Respond(t, req, 403, ErrCsrf, {})
                [] r = "html" -> Respond(t, req, 200, "", {"html"})
                [] r = "404" -> Respond(t, req, 404, "", {})
                [] r = "tree" -> Respond(t, req, 200, "", {"tree"})
                [] r = "shutdown" -> Respond(t, req, 200, "", {"shutdown"})
                [] r = "source" ->
                     /\ thr' = [thr EXCEPT ![t] =
                                 [IdleThread EXCEPT !.pc = "src_lock", !.req = req]]
                     /\ UNCHANGED lastResp
                [] r = "analyze" ->
                     /\ thr' = [thr EXCEPT ![t] =
                                 [IdleThread EXCEPT !.pc = "an_lookup", !.req = req]]
                     /\ UNCHANGED lastResp
                [] OTHER ->
                     /\ thr' = [thr EXCEPT ![t] =
                                 [IdleThread EXCEPT !.pc = "rp_validate", !.req = req]]
                     /\ UNCHANGED lastResp
           /\ shutdownStarted' = (shutdownStarted \/ r = "shutdown")
    /\ UNCHANGED <<heap, node_lookup, analyze_lock, cacheFile, ollama, aiCalls,
                   nodeWrites, replaces>>
    /\ UNCHANGED notServer

\* _handle_source: with _Handler.analyze_lock
SrvSourceLock(t) ==
    /\ thr[t].pc = "src_lock"
    /\ analyze_lock = 0
    /\ analyze_lock' = t
    /\ Goto(t, "src_read")
    /\ UNCHANGED <<heap, node_lookup, cacheFile, ollama, lastResp, reqCount,
                   last_request_time, shutdownStarted, aiCalls, nodeWrites,
                   replaces>>
    /\ UNCHANGED notServer

\* _handle_source: the lookup and the read of node.source, then the answer
SrvSourceRead(t) ==
    /\ thr[t].pc = "src_read"
    /\ analyze_lock' = 0
    /\ IF NodeIdOf(thr[t].req) \in DOMAIN node_lookup
       THEN Respond(t, thr[t].req, 200, "", {"source"})
       ELSE Respond(t, thr[t].req, 404, "Unknown node ID", {})
    /\ UNCHANGED <<heap, node_lookup, cacheFile, ollama, reqCount,
                   last_request_time, shutdownStarted, aiCalls, nodeWrites,
                   replaces>>
    /\ UNCHANGED notServer

\* _analyze_node: node_id not in node_lookup; node = node_lookup[node_id]
SrvAnalyzeLookup(t) ==
    /\ thr[t].pc = "an_lookup"
    /\ IF NodeIdOf(thr[t].req) \in DOMAIN node_lookup
       THEN /\ thr' = [thr EXCEPT ![t].pc = "an_peek",
                                  ![t].node = node_lookup[NodeIdOf(thr[t].req)]]
            /\ UNCHANGED lastResp
       ELSE Respond(t, thr[t].req, 404, "Unknown node ID", {})
    /\ UNCHANGED <<heap, node_lookup, analyze_lock, cacheFile, ollama, reqCount,
                   last_request_time, shutdownStarted, aiCalls, nodeWrites,
                   replaces>>
    /\ UNCHANGED notServer

\* if node.summary is not None: return _node_to_dict(...)   (no lock)
NeverAnalyzed(n) == FALSE
AlreadyAnalyzed(n) == n.summary # None

SrvAnalyzePeek(t) ==
    /\ thr[t].pc = "an_peek"
    /\ IF AlreadyAnalyzed(heap[thr[t].node])
       THEN thr' = [thr EXCEPT ![t].pc = "dict_fields",
                               ![t].dict.seen0 = nodeWrites]
       ELSE Goto(t, "an_lock")
    /\ UNCHANGED <<heap, node_lookup, analyze_lock, cacheFile, ollama, lastResp,
                   reqCount, last_request_time, shutdownStarted, aiCalls,
                   nodeWrites, replaces>>
    /\ UNCHANGED notServer

\* with _Handler.analyze_lock:
SrvAnalyzeLock(t) ==
    /\ thr[t].pc = "an_lock"
    /\ analyze_lock = 0
    /\ analyze_lock' = t
    /\ thr' = [thr EXCEPT ![t].pc = "an_recheck", ![t].locked = TRUE]
    /\ UNCHANGED <<heap, node_lookup, cacheFile, ollama, lastResp, reqCount,
                   last_request_time, shutdownStarted, aiCalls, nodeWrites,
                   replaces>>
    /\ UNCHANGED notServer

\* if node.summary is None:   (under the lock)
RecheckSkipped(n) == TRUE
StillUnanalyzed(n) == n.summary = None

SrvAnalyzeRecheck(t) ==
    /\ thr[t].pc = "an_recheck"
    /\ IF StillUnanalyzed(heap[thr[t].node])
       THEN Goto(t, "an_work")
       ELSE Goto(t, "an_unlock")
    /\ UNCHANGED <<heap, node_lookup, analyze_lock, cacheFile, ollama, lastResp,
                   reqCount, last_request_time, shutdownStarted, aiCalls,
                   nodeWrites, replaces>>
    /\ UNCHANGED notServer

\* analyze_single_node(...); except Exception: node.summary = "Analysis failed"
SrvAnalyzeWork(t, outcome, saved) ==
    /\ thr[t].pc = "an_work"
    /\ LET o == thr[t].node
           r == analyze_single_node(heap, heap[o], outcome, saved)
       IN  /\ heap' = [heap EXCEPT ![o] =
                         IF r.raised
                         THEN [r.node EXCEPT
                                 !.summary = Summ("Analysis failed", "", 0, <<>>)]
                         ELSE r.node]
           /\ cacheFile' = r.cache
           /\ aiCalls' = [aiCalls EXCEPT ![o] = IF r.called THEN @ + 1 ELSE @]
    /\ thr' = [thr EXCEPT
                 ![t].pc = "an_unlock",
                 ![t].ops = @ \cup {"analysis"}
                              \cup IF analyze_single_node(heap, heap[thr[t].node],
                                                          outcome, saved).raised
                                   THEN {"raised"} ELSE {}]
    /\ UNCHANGED <<node_lookup, analyze_lock, ollama, lastResp, reqCount,
                   last_request_time, shutdownStarted, nodeWrites, replaces>>
    /\ UNCHANGED notServer

\* the end of the with block
SrvAnalyzeUnlock(t) ==
    /\ thr[t].pc = "an_unlock"
    /\ analyze_lock' = 0
    /\ Goto(t, "dict_fields")
    /\ UNCHANGED <<heap, node_lookup, cacheFile, ollama, lastResp, reqCount,
                   last_request_time, shutdownStarted, aiCalls, nodeWrites,
                   replaces>>
    /\ UNCHANGED notServer

\* _node_to_dict(node, include_source=True): the fields read first
\* (start_line .. warnings), outside the lock
SrvDictFields(t) ==
    /\ thr[t].pc = "dict_fields"
    /\ LET n == heap[thr[t].node]
       IN  thr' = [thr EXCEPT
                     ![t].pc = "dict_source",
                     ![t].dict = [thr[t].dict EXCEPT
                                    !.start_line = n.start_line,
                                    !.end_line = n.end_line,
                                    !.line_count = n.line_count,
                                    !.summary = n.summary,
                                    !.seen1 = nodeWrites]]
    /\ UNCHANGED <<heap, node_lookup, analyze_lock, cacheFile, ollama, lastResp,
                   reqCount, last_request_time, shutdownStarted, aiCalls,
                   nodeWrites, replaces>>
    /\ UNCHANGED notServer

\* _node_to_dict: d["source"] = node.source, read last; then the answer
SrvDictSource(t) ==
    /\ thr[t].pc = "dict_source"
    /\ LET d == [thr[t].dict EXCEPT !.source = heap[thr[t].node].source,
                                   !.seen2 = nodeWrites]
       IN  /\ lastResp' = [req |-> thr[t].req, status |-> 200, error |-> "",
                           ops |-> thr[t].ops, node |-> thr[t].node,
                           locked |-> thr[t].locked, dict |-> d]
           /\ thr' = [thr EXCEPT ![t] = IdleThread]
    /\ UNCHANGED <<heap, node_lookup, analyze_lock, cacheFile, ollama, reqCount,
                   last_request_time, shutdownStarted, aiCalls, nodeWrites,
                   replaces>>
    /\ UNCHANGED notServer

\* the file node that owns a node: the first node of node_lookup with
\* node_type "file" and the same filepath
FileObjOf(h, lookup, n) ==
    IF \E i \in DOMAIN lookup : h[lookup[i]].node_type = "file"
                                /\ h[lookup[i]].filepath = n.filepath
    THEN lookup[CHOOSE i \in DOMAIN lookup :
                    h[lookup[i]].node_type = "file"
                    /\ h[lookup[i]].filepath = n.filepath]
    ELSE NoObj

\* _execute_replace up to the lock: the node is looked up and tested
SrvReplaceValidate(t) ==
    /\ thr[t].pc = "rp_validate"
    /\ LET id == NodeIdOf(thr[t].req)
       IN  IF id \notin DOMAIN node_lookup
           THEN Respond(t, thr[t].req, 404, "Unknown node ID", {})
           ELSE IF heap[node_lookup[id]].node_type = "directory"
           THEN Respond(t, thr[t].req, 400, "Cannot replace directory blocks", {})
           ELSE /\ thr' = [thr EXCEPT ![t].pc = "rp_lock",
                                      ![t].node = node_lookup[id]]
                /\ UNCHANGED lastResp
    /\ UNCHANGED <<heap, node_lookup, analyze_lock, cacheFile, ollama, reqCount,
                   last_request_time, shutdownStarted, aiCalls, nodeWrites,
                   replaces>>
    /\ UNCHANGED notServer

\* with _Handler.analyze_lock:
SrvReplaceLock(t) ==
    /\ thr[t].pc = "rp_lock"
    /\ analyze_lock = 0
    /\ analyze_lock' = t
    /\ thr' = [thr EXCEPT ![t].pc = "rp_exec", ![t].locked = TRUE]
    /\ UNCHANGED <<heap, node_lookup, cacheFile, ollama, lastResp, reqCount,
                   last_request_time, shutdownStarted, aiCalls, nodeWrites,
                   replaces>>
    /\ UNCHANGED notServer

\* result = replace_block_source(abs_path, node.start_line, node.end_line,
\* new_source): what the editor does on the file text, or a failure of its
\* own (the file was modified externally, an I/O error)
SrvReplaceExec(t, err) ==
    /\ thr[t].pc = "rp_exec"
    /\ LET n == heap[thr[t].node]
           fo == FileObjOf(heap, node_lookup, n)
           r == replace_pure(heap[fo].source, n.start_line, n.end_line,
                             thr[t].req.src)
           res == IF err = "" THEN r.res ELSE Failure(err)
       IN  /\ fo # NoObj
           /\ res.success => replaces < MaxReplaces
           /\ thr' = [thr EXCEPT
                        ![t].pc = IF res.success THEN "rp_update" ELSE "rp_unlock",
                        ![t].result = res,
                        ![t].newText = r.text,
                        ![t].ops = @ \cup {"replace"}]
    /\ UNCHANGED <<heap, node_lookup, analyze_lock, cacheFile, ollama, lastResp,
                   reqCount, last_request_time, shutdownStarted, aiCalls,
                   nodeWrites, replaces>>
    /\ UNCHANGED notServer

\* replace_block_source raises (the read of the file fails): the with block
\* releases the lock, _handle_replace answers 500
SrvReplaceRaises(t) ==
    /\ thr[t].pc = "rp_exec"
    /\ analyze_lock' = 0
    /\ Respond(t, thr[t].req, 500, "Internal server error",
               {"replace", "raised"})
    /\ UNCHANGED <<heap, node_lookup, cacheFile, ollama, reqCount,
                   last_request_time, shutdownStarted, aiCalls, nodeWrites,
                   replaces>>
    /\ UNCHANGED notServer

\* _update_node_after_replace, the node: source, line_count and end_line
\* are rewritten and the analysis is cleared
node_after_replace_analysis_kept(n, new_source, after) ==
    [n EXCEPT !.source = new_source, !.line_count = after,
              !.end_line = n.start_line + after - 1]
node_after_replace(n, new_source, after) ==
    [n EXCEPT !.source = new_source, !.line_count = after,
              !.end_line = n.start_line + after - 1,
              !.summary = None, !.pseudocode = "None", !.quality = "None"]

\* _update_node_after_replace: the node's fields, then the cache entry of
\* the old source is removed and the cache saved
SrvReplaceUpdate(t, saved) ==
    /\ thr[t].pc = "rp_update"
    /\ LET o == thr[t].node
           old_key == cache_key(heap[o])
           after == thr[t].result.lines_after
       IN  /\ heap' = [heap EXCEPT ![o] =
                  node_after_replace(@, thr[t].req.src, after)]
           /\ cacheFile' =
                  IF saved
                  THEN [cacheFile EXCEPT !.entries =
                           [k \in (DOMAIN @) \ {old_key} |-> @[k]]]
                  ELSE cacheFile
    /\ nodeWrites' = nodeWrites + 1
    /\ replaces' = replaces + 1
    /\ aiCalls' = [aiCalls EXCEPT ![thr[t].node] = 0]
    /\ thr' = [thr EXCEPT ![t].pc = "rp_refresh",
                          ![t].old_key = cache_key(heap[thr[t].node]),
                          ![t].saved = saved]
    /\ UNCHANGED <<node_lookup, analyze_lock, ollama, lastResp, reqCount,
                   last_request_time, shutdownStarted>>
    /\ UNCHANGED notServer

\* parse_file: the parser is a library; here a file with at least one line
\* holds one function g that spans the whole file
parse_file(text, gen) ==
    LET count == Len(splitlines(text))
        kid == Obj(FuncId, gen)
    IN  [file |-> Node(FileId, "file", 1, count, text,
                       IF count > 0 THEN <<kid>> ELSE <<>>),
         kids |-> IF count > 0
                  THEN (kid :> Node(FuncId, "function", 1, count, text, <<>>))
                  ELSE <<>>]

\* _refresh_file_nodes: the file is parsed again, the file node is updated
\* in place, its children are new objects, node_lookup is rebuilt
SrvReplaceRefresh(t) ==
    /\ thr[t].pc = "rp_refresh"
    /\ LET fo == FileObjOf(heap, node_lookup, heap[thr[t].node])
           p == parse_file(thr[t].newText, replaces)
           h == [heap EXCEPT ![fo] =
                    [@ EXCEPT !.source = p.file.source,
                              !.children = p.file.children,
                              !.line_count = p.file.line_count,
                              !.end_line = p.file.end_line]]
       IN  /\ fo # NoObj
           /\ heap' = p.kids @@ h
           /\ node_lookup' = assign_node_ids(p.kids @@ h)
           /\ aiCalls' = [o \in DOMAIN p.kids |-> 0] @@ aiCalls
    /\ nodeWrites' = nodeWrites + 1
    /\ Goto(t, "rp_unlock")
    /\ UNCHANGED <<analyze_lock, cacheFile, ollama, lastResp, reqCount,
                   last_request_time, shutdownStarted, replaces>>
    /\ UNCHANGED notServer

\* _refresh_file_nodes raises: tree_stale = True
SrvReplaceRefreshFails(t) ==
    /\ thr[t].pc = "rp_refresh"
    /\ thr' = [thr EXCEPT ![t].pc = "rp_unlock", ![t].stale = TRUE]
    /\ UNCHANGED <<heap, node_lookup, analyze_lock, cacheFile, ollama, lastResp,
                   reqCount, last_request_time, shutdownStarted, aiCalls,
                   nodeWrites, replaces>>
    /\ UNCHANGED notServer

\* the status of a failed replace
ReplaceStatus(res) ==
    IF res.success THEN 200
    ELSE IF res.error = ErrModified THEN 409
    ELSE IF res.error \in {ErrRange, ErrTooLong, ErrUtf8, ErrNotStr, ErrNotFound}
    THEN 400
    ELSE 500

\* the end of the with block and the answer of _execute_replace
SrvReplaceUnlock(t) ==
    /\ thr[t].pc = "rp_unlock"
    /\ analyze_lock' = 0
    /\ Respond(t, thr[t].req, ReplaceStatus(thr[t].result),
               thr[t].result.error, thr[t].ops)
    /\ UNCHANGED <<heap, node_lookup, cacheFile, ollama, reqCount,
                   last_request_time, shutdownStarted, aiCalls, nodeWrites,
                   replaces>>
    /\ UNCHANGED notServer

NextServer ==
    \/ \E t \in Threads, req \in Requests : SrvReceive(t, req)
    \/ \E t \in Threads : SrvSourceLock(t)
    \/ \E t \in Threads : SrvSourceRead(t)
    \/ \E t \in Threads : SrvAnalyzeLookup(t)
    \/ \E t \in Threads : SrvAnalyzePeek(t)
    \/ \E t \in Threads : SrvAnalyzeLock(t)
    \/ \E t \in Threads : SrvAnalyzeRecheck(t)
    \/ \E t \in Threads, outcome \in AiOutcomes, saved \in BOOLEAN :
         SrvAnalyzeWork(t, outcome, saved)
    \/ \E t \in Threads : SrvAnalyzeUnlock(t)
    \/ \E t \in Threads : SrvDictFields(t)
    \/ \E t \in Threads : SrvDictSource(t)
    \/ \E t \in Threads : SrvReplaceValidate(t)
    \/ \E t \in Threads : SrvReplaceLock(t)
    \/ \E t \in Threads, err \in {"", ErrModified, ErrIO} : SrvReplaceExec(t, err)
    \/ \E t \in Threads : SrvReplaceRaises(t)
    \/ \E t \in Threads, saved \in BOOLEAN : SrvReplaceUpdate(t, saved)
    \/ \E t \in Threads : SrvReplaceRefresh(t)
    \/ \E t \in Threads : SrvReplaceRefreshFails(t)
    \/ \E t \in Threads : SrvReplaceUnlock(t)

SpecServer == InitServer /\ [][NextServer]_vars

\* ---------------------------------------------------------------------
\* Claims about the interactive server

\* a request that must carry the session token: any GET under /api/ and
\* any POST
NeedsToken(req) ==
    \/ req.method = "POST"
    \/ req.method = "GET" /\ StartsWith(req.path, <<"api">>)

\* C1: every API request (a GET under /api/, any POST) whose token is
\* missing or wrong is answered 403 with the CSRF error, no handler runs
\* for it and nothing (tree, source, analysis, replace, shutdown) is done
\* for it.
C1_CsrfRejected ==
    /\ \A t \in Threads :
         thr[t].pc # "idle" =>
            ~NeedsToken(thr[t].req) \/ thr[t].req.token = CsrfToken
    /\ (lastResp # NoResp /\ NeedsToken(lastResp.req)
        /\ lastResp.req.token # CsrfToken) =>
            /\ lastResp.status = 403
            /\ lastResp.error = ErrCsrf
            /\ lastResp.ops = {}

\* a POST /shutdown without the token was answered 403 and the server
\* was not shut down
C1_Witness ==
    /\ lastResp.req.method = "POST"
    /\ lastResp.req.path = <<"shutdown">>
    /\ lastResp.req.token = ""
    /\ lastResp.status = 403
    /\ ~shutdownStarted

\* C2: with no replace in between, the summarizer is called at most once
\* for a node, however many analyze requests race on it (aiCalls counts
\* the calls made for a node object since it was created or last replaced),
\* and a request that does no work after its re-check under the lock
\* finds the summary written.
C2_AtMostOneAiCall ==
    /\ \A o \in DOMAIN aiCalls : aiCalls[o] <= 1
    /\ \A t \in Threads :
         (thr[t].pc = "an_unlock" /\ "analysis" \notin thr[t].ops) =>
            heap[thr[t].node].summary # None

\* a request took the lock after another one had analyzed the node, saw
\* the summary under the lock and does no work
C2_Witness ==
    \E t \in Threads :
        /\ thr[t].pc = "an_unlock"
        /\ "analysis" \notin thr[t].ops
        /\ aiCalls[thr[t].node] = 1

\* C3: every read an analyze request makes of a node, the reads that
\* build its response included, is entirely before or entirely after the
\* node updates of a replace: no node write falls between the reads of
\* one response.
C3_NoInterleaving ==
    (lastResp.status = 200 /\ StartsWith(lastResp.req.path, <<"api", "analyze">>))
        => lastResp.dict.seen1 = lastResp.dict.seen2

\* an analyze request that found the summary present without the lock
\* and has not answered yet
OnFastPath(t) ==
    \/ thr[t].pc = "an_peek" /\ heap[thr[t].node].summary # None
    \/ thr[t].pc \in {"dict_fields", "dict_source"} /\ ~thr[t].locked

\* C22: an analyze request for a node that has a summary (whatever the
\* summary says) makes no AI call, takes no lock and changes no node, no
\* lookup entry and no cache entry in any of its steps, and if no replace
\* wrote to a node since the request saw the summary, its answer is 200
\* with that summary, which the node still has, and the node's source.
C22_AnalyzeIdempotent ==
    [][\A t \in Threads :
          (OnFastPath(t) /\ thr'[t] # thr[t]) =>
              /\ heap' = heap /\ node_lookup' = node_lookup
              /\ cacheFile' = cacheFile /\ aiCalls' = aiCalls
              /\ analyze_lock' = analyze_lock
              /\ ~thr'[t].locked /\ thr'[t].ops = {}
              /\ thr'[t].pc \in {"dict_fields", "dict_source", "idle"}
              /\ thr'[t].pc = "idle" =>
                    /\ lastResp'.req = thr[t].req /\ lastResp'.status = 200
                    /\ ~lastResp'.locked /\ lastResp'.ops = {}
                    /\ lastResp'.dict.seen0 = nodeWrites =>
                          /\ lastResp'.dict.summary # None
                          /\ lastResp'.dict.summary = heap[thr[t].node].summary
                          /\ lastResp'.dict.source = heap[thr[t].node].source
    ]_vars

\* an analyze request for a node whose summary is 'Summary timed out' was
\* answered with that summary without the lock, and the summarizer was
\* called once for the node, by the request that came before
C22_Witness ==
    /\ lastResp.status = 200
    /\ StartsWith(lastResp.req.path, <<"api", "analyze">>)
    /\ ~lastResp.locked /\ lastResp.ops = {}
    /\ lastResp.dict.seen0 = nodeWrites
    /\ lastResp.dict.summary = Summ("Summary timed out", "", 0, <<>>)
    /\ aiCalls[lastResp.node] = 1

\* a replace request that succeeded, at the end of its critical section
Replaced(t) == thr[t].pc = "rp_unlock" /\ thr[t].result.success
\* the replaced node is a file node and the file was parsed again:
\* _refresh_file_nodes has put what it read into the file node
ReadBack(t) == heap[thr[t].node].node_type = "file" /\ ~thr[t].stale
Cleared(n) == n.summary = None /\ n.pseudocode = "None" /\ n.quality = "None"

Rejection ==
    /\ reqCount' = reqCount + 1
    /\ thr' = thr
    /\ lastResp'.status = 403 /\ lastResp'.error = ErrCsrf

\* C24: a request rejected for a missing or wrong token changes nothing on
\* the server: no node, not the lookup table, not the lock, not the cache
\* file, and not the last-request time the idle watcher reads.
C24_RejectionHasNoEffect ==
    [][Rejection =>
          /\ heap' = heap /\ node_lookup' = node_lookup
          /\ analyze_lock' = analyze_lock /\ cacheFile' = cacheFile
          /\ shutdownStarted' = shutdownStarted
          /\ last_request_time' = last_request_time
    ]_vars

\* the answer to a request during which an exception was raised that no
\* except clause of the editor or the analyzer names
Unexpected(resp) == "raised" \in resp.ops

\* C31: an unexpected exception raised while a request is handled is
\* answered with status 500 and the generic error text, and the thread that
\* answered does not keep the analysis lock.
C31_UnexpectedAnswered500 ==
    /\ Unexpected(lastResp) =>
          lastResp.status = 500 /\ lastResp.error = "Internal server error"
    /\ \A t \in Threads : thr[t].pc = "idle" => analyze_lock # t

----------------------------------------------------------------------------
(* SpecBatch: one run of analyze(root, model, workers).                    *)

\* the tree of the run: directory d > (directory s > file f2 > function k),
\* (file f > functions g and h); f2, k and h are below MIN_LINES_FOR_AI; a
\* directory has the lines of the files below it (_accumulate_line_counts)
MethId == "h"
SubDirId == "s"
File2Id == "f2"
BatchRoot == Obj(DirId, 0)
SrcOf(n) == [k \in 1..(2 * n) |-> IF k % 2 = 1 THEN Letter ELSE LF]
BatchTree(hlines) ==
    (Obj(DirId, 0) :> [Node(DirId, "directory", 1, 0, <<>>,
                            <<Obj(SubDirId, 0), Obj(FileId, 0)>>)
                          EXCEPT !.start_line = 0,
                                 !.line_count = 2 + 3 + hlines])
    @@ (Obj(SubDirId, 0) :> [Node(SubDirId, "directory", 1, 0, <<>>,
                                  <<Obj(File2Id, 0)>>)
                          EXCEPT !.start_line = 0, !.line_count = 2,
                                 !.filepath = "s"])
    @@ (Obj(File2Id, 0) :> [Node(File2Id, "file", 1, 2, SrcOf(2),
                                 <<Obj(SevereId, 0)>>)
                          EXCEPT !.filepath = "s/f2.py"])
    @@ (Obj(SevereId, 0) :> [Node(SevereId, "function", 1, 2, SrcOf(2), <<>>)
                          EXCEPT !.filepath = "s/f2.py"])
    @@ (Obj(FileId, 0) :> Node(FileId, "file", 1, 3 + hlines, SrcOf(3 + hlines),
                               <<Obj(FuncId, 0), Obj(MethId, 0)>>))
    @@ (Obj(FuncId, 0) :> Node(FuncId, "function", 1, 3, Src3, <<>>))
    @@ (Obj(MethId, 0) :> Node(MethId, "function", 4, 3 + hlines,
                               SrcOf(hlines), <<>>))

\* _collect_nodes: every node with its depth, parents before children
RECURSIVE collect_nodes(_, _, _)
collect_nodes(h, o, depth) ==
    LET kids == h[o].children
        sub[k \in 0..Len(kids)] ==
            IF k = 0 THEN << <<o, depth>> >>
            ELSE sub[k - 1] \o collect_nodes(h, kids[k], depth + 1)
    IN  sub[Len(kids)]

\* sorted(..., key=depth): a stable sort; reverse=True keeps the order of
\* equal depths as well
RECURSIVE ByDepthFrom(_, _)
ByDepthFrom(seq, k) ==
    IF k > Len(seq) THEN <<>>
    ELSE SelectSeq(seq, LAMBDA x : x[2] = k) \o ByDepthFrom(seq, k + 1)
Unsorted(seq) == seq
SortedByDepth(seq) == ByDepthFrom(seq, 0)
RECURSIVE ByDepthDownFrom(_, _)
ByDepthDownFrom(seq, k) ==
    IF k < 0 THEN <<>>
    ELSE SelectSeq(seq, LAMBDA x : x[2] = k) \o ByDepthDownFrom(seq, k - 1)
ShallowestFirst(seq) == ByDepthFrom(seq, 0)
DeepestFirst(seq) == ByDepthDownFrom(seq, Len(seq))
NodesOf(seq) == [k \in 1..Len(seq) |-> seq[k][1]]

\* _select_ai_nodes: the files by depth, then the code nodes by depth
select_files_only(h, all_nodes) ==
    NodesOf(SortedByDepth(SelectSeq(all_nodes,
                LAMBDA x : h[x[1]].node_type = "file")))
select_ai_nodes(h, all_nodes) ==
    NodesOf(SortedByDepth(SelectSeq(all_nodes,
                LAMBDA x : h[x[1]].node_type = "file")))
    \o NodesOf(SortedByDepth(SelectSeq(all_nodes,
                LAMBDA x : h[x[1]].node_type \in {"class", "function", "method"})))

\* _rollup_quality: the worst quality of the children if it is worse than
\* the node's own
QualityRank(q) == CASE q = "warning" -> 2 [] q = "complex" -> 1 [] OTHER -> 0
rollup_quality(h, n) ==
    LET own == IF n.quality = "None" THEN "clean" ELSE n.quality
        worst == IF \E k \in 1..Len(n.children) :
                        h[n.children[k]].quality = "warning" THEN "warning"
                 ELSE IF \E k \in 1..Len(n.children) :
                        h[n.children[k]].quality = "complex" THEN "complex"
                 ELSE "clean"
    IN  IF n.children # <<>> /\ QualityRank(worst) > QualityRank(own)
        THEN [n EXCEPT !.quality = worst]
        ELSE n

\* _score_all_nodes
score_all_nodes(h) == [o \in DOMAIN h |-> [h[o] EXCEPT !.quality = score_quality(h[o])]]

\* _rollup_file_quality: files and classes, deepest first
RECURSIVE RollupEach(_, _)
RollupEach(h, seq) ==
    IF seq = <<>> THEN h
    ELSE RollupEach([h EXCEPT ![Head(seq)] = rollup_quality(h, h[Head(seq)])],
                    Tail(seq))
rollup_file_quality(h, all_nodes) ==
    RollupEach(h, NodesOf(DeepestFirst(SelectSeq(all_nodes,
                    LAMBDA x : h[x[1]].node_type \in {"file", "class"}))))

\* _summarize_directories: the directories, deepest first
RECURSIVE SummarizeEach(_, _)
SummarizeEach(h, seq) ==
    IF seq = <<>> THEN h
    ELSE SummarizeEach([h EXCEPT ![Head(seq)] =
                            summarize_directory(h, h[Head(seq)])], Tail(seq))
summarize_directories(h, all_nodes) ==
    SummarizeEach(h, NodesOf(DeepestFirst(SelectSeq(all_nodes,
                    LAMBDA x : h[x[1]].node_type = "directory"))))

\* analyze_no_ai: _walk scores the node, walks its children, then rolls a
\* file or class up and summarizes a directory
RECURSIVE walk_no_ai(_, _)
walk_no_ai(h, o) ==
    LET kids == h[o].children
        scored == [h EXCEPT ![o].quality = score_quality(h[o])]
        sub[k \in 0..Len(kids)] ==
            IF k = 0 THEN scored ELSE walk_no_ai(sub[k - 1], kids[k])
        walked == sub[Len(kids)]
    IN  IF walked[o].node_type \in {"file", "class"}
        THEN [walked EXCEPT ![o] = rollup_quality(walked, walked[o])]
        ELSE IF walked[o].node_type = "directory"
        THEN [walked EXCEPT ![o] = summarize_directory(walked, walked[o])]
        ELSE walked
analyze_no_ai(h, root) == walk_no_ai(h, root)

\* a cache entry
Entry(kind) ==
    [summary |-> Summ(kind, "", 0, <<>>),
     pseudocode |-> IF kind = "AI summary" THEN "pseudocode" ELSE ""]

\* what the cache file holds while a record is being written into it
Torn == [model |-> "torn", entries |-> <<>>]

\* _load_cache: the record of the file, an empty record if the file is
\* missing or is not a complete JSON document
load_cache_fresh(file) == EmptyCache("")
load_cache(file) == IF file = Torn THEN EmptyCache("") ELSE file

\* _init_cache: the loaded record, emptied if it was written for another
\* model
init_cache(file) ==
    discard_other_model(load_cache(file))

\* what one call of _summarize_with_ai can do: a result, a short or empty
\* answer, None after _AI_TIMEOUT, or an exception
Exceptions == {"ConnectionError", "ValueError", "RuntimeError"}
BatchOutcomes == {"ok", "garbage", "timeout"} \cup Exceptions

NoJob == [pc |-> "idle", node |-> NoObj, result |-> "", exc |-> ""]
NoTmp == [exists |-> FALSE, complete |-> FALSE, data |-> EmptyCache("")]
Event(ev, o, outcome) == [ev |-> ev, node |-> o, outcome |-> outcome]

\* what is remembered of the run before: nothing before the first run
NoPrev == [nodes |-> <<>>, clean |-> FALSE]

InitBatch ==
    /\ SpliceIdle /\ EditorIdle /\ ServerIdle /\ AuxIdle
    /\ tree = BatchTree(MIN_LINES_FOR_AI - 1)
    /\ workers \in {1, MaxWorkers}
    /\ cache = EmptyCache("")
    /\ \E m \in {"", Model, "other"} :
         bCacheFile = [model |-> m,
                       entries |-> IF m = "" THEN <<>>
                                   ELSE (cache_key(BatchTree(1)[Obj(FuncId, 0)])
                                         :> Entry("AI summary"))]
    /\ bpc = "start"
    /\ pending = <<>>
    /\ job = [w \in 1..MaxWorkers |-> NoJob]
    /\ futures = <<>>
    /\ bLog = <<>>
    /\ bTmpFile = NoTmp
    /\ bSaveHist = [prev |-> bCacheFile, outcome |-> "none"]
    /\ abandoned = <<>>
    /\ bRun = 1
    /\ bPrevTree = NoPrev
    /\ bDone = [o \in DOMAIN tree |-> <<>>]

\* analyze() starts: _init_cache, _collect_nodes
BatchStart ==
    /\ bpc = "start"
    /\ cache' = init_cache(bCacheFile)
    /\ bpc' = "score"
    /\ UNCHANGED <<tree, workers, bCacheFile, pending, job, futures, bLog>>
    /\ UNCHANGED <<bTmpFile, bSaveHist, abandoned, bRun, bPrevTree>>
    /\ UNCHANGED bDone
    /\ UNCHANGED notBatch

\* analyze_no_ai(root) is called instead of analyze(): no cache, no
\* summarizer
BatchNoAi ==
    /\ bpc = "start"
    /\ tree' = analyze_no_ai(tree, BatchRoot)
    /\ bpc' = "done_no_ai"
    /\ UNCHANGED <<workers, cache, bCacheFile, pending, job, futures, bLog>>
    /\ UNCHANGED <<bTmpFile, bSaveHist, abandoned, bRun, bPrevTree>>
    /\ UNCHANGED bDone
    /\ UNCHANGED notBatch

\* analyze(): _score_all_nodes(all_nodes)
BatchScore ==
    /\ bpc = "score"
    /\ tree' = score_all_nodes(tree)
    /\ bLog' = Append(bLog, Event("score", NoObj, ""))
    /\ bpc' = "rollup"
    /\ UNCHANGED <<workers, cache, bCacheFile, pending, job, futures>>
    /\ UNCHANGED <<bTmpFile, bSaveHist, abandoned, bRun, bPrevTree>>
    /\ UNCHANGED bDone
    /\ UNCHANGED notBatch

\* analyze(): _rollup_file_quality(all_nodes); then _run_ai_batch selects
\* the nodes and _dispatch_work starts (the pool gets every node submitted
\* at once, in the order of the list)
BatchRollup ==
    /\ bpc = "rollup"
    /\ LET all_nodes == collect_nodes(tree, BatchRoot, 0)
           rolled == rollup_file_quality(tree, all_nodes)
           ai_nodes == select_ai_nodes(rolled, all_nodes)
       IN  /\ tree' = rolled
           /\ pending' = ai_nodes
           /\ futures' = IF workers = 1 THEN <<>>
                         ELSE [o \in {ai_nodes[k] : k \in 1..Len(ai_nodes)} |->
                                  [state |-> "pending", exc |-> ""]]
    /\ bLog' = Append(bLog, Event("rollup", NoObj, ""))
    /\ bpc' = "dispatch"
    /\ UNCHANGED <<workers, cache, bCacheFile, job>>
    /\ UNCHANGED <<bTmpFile, bSaveHist, abandoned, bRun, bPrevTree>>
    /\ UNCHANGED bDone
    /\ UNCHANGED notBatch

\* the next node is taken up: by the loop of _dispatch_work (workers == 1)
\* or by a free thread of the pool
BatchTake(w) ==
    /\ w \in 1..workers
    /\ bpc \in (IF workers = 1 THEN {"dispatch"} ELSE {"dispatch", "raising"})
    /\ job[w].pc = "idle"
    /\ pending # <<>>
    /\ job' = [job EXCEPT ![w] = [NoJob EXCEPT !.pc = "do_one",
                                               !.node = Head(pending)]]
    /\ pending' = Tail(pending)
    /\ futures' = IF workers = 1 THEN futures
                  ELSE [futures EXCEPT ![Head(pending)].state = "running"]
    /\ UNCHANGED <<tree, workers, cache, bCacheFile, bpc, bLog>>
    /\ UNCHANGED <<bTmpFile, bSaveHist, abandoned, bRun, bPrevTree>>
    /\ UNCHANGED bDone
    /\ UNCHANGED notBatch

\* analyze(): except ConnectionError / except RuntimeError: sys.exit(1);
\* any other exception leaves analyze()
Propagate(exc) == IF exc \in {"ConnectionError", "RuntimeError"}
                  THEN "exited" ELSE "crashed"

\* _do_one ends for worker w, with the exception that left it or "";
\* kind is the way it ended
Finish(w, exc, kind) ==
    /\ job' = [job EXCEPT ![w] = NoJob]
    /\ bDone' = [bDone EXCEPT ![job[w].node] = Append(@, kind)]
    /\ IF workers = 1
       THEN /\ bpc' = IF exc = "" THEN bpc ELSE Propagate(exc)
            /\ UNCHANGED futures
       ELSE /\ futures' = [futures EXCEPT ![job[w].node] =
                              [state |-> "done", exc |-> exc]]
            /\ UNCHANGED bpc

\* _do_one: if node.line_count < MIN_LINES_FOR_AI; key = _cache_key(node)
BatchSmall(w) ==
    /\ job[w].pc = "do_one"
    /\ LET o == job[w].node
       IN  IF below_min_lines(tree[o])
           THEN /\ tree' = [tree EXCEPT ![o].summary =
                              Summ("Small", tree[o].node_type,
                                   tree[o].line_count, <<>>)]
                /\ Finish(w, "", "small")
           ELSE /\ job' = [job EXCEPT ![w].pc = "lookup"]
                /\ UNCHANGED <<tree, futures, bpc, bDone>>
    /\ UNCHANGED <<workers, cache, bCacheFile, pending, bLog>>
    /\ UNCHANGED <<bTmpFile, bSaveHist, abandoned, bRun, bPrevTree>>
    /\ UNCHANGED notBatch

\* _do_one: with cache_lock: if key in cache["entries"]
BatchLookup(w) ==
    /\ job[w].pc = "lookup"
    /\ LET o == job[w].node
           key == cache_key(tree[o])
       IN  IF key \in DOMAIN cache.entries
           THEN /\ tree' = [tree EXCEPT
                              ![o].summary = cache.entries[key].summary,
                              ![o].pseudocode = cache.entries[key].pseudocode]
                /\ Finish(w, "", "hit")
           ELSE /\ job' = [job EXCEPT ![w].pc = "call"]
                /\ UNCHANGED <<tree, futures, bpc, bDone>>
    /\ UNCHANGED <<workers, cache, bCacheFile, pending, bLog>>
    /\ UNCHANGED <<bTmpFile, bSaveHist, abandoned, bRun, bPrevTree>>
    /\ UNCHANGED notBatch

\* _summarize_with_ai: except TimeoutError catches what future.result
\* raises after _AI_TIMEOUT: concurrent.futures.TimeoutError is the builtin
\* TimeoutError (Python 3.11 and later)
TimeoutErrorIsOwnClass == FALSE
TimeoutErrorIsBuiltin == TRUE

\* what _summarize_with_ai hands to its caller for an outcome of the call:
\* None after a timeout, a tuple, or an exception
Raises(outcome) ==
    IF outcome = "timeout" /\ ~TimeoutErrorIsBuiltin THEN "TimeoutError"
    ELSE IF outcome \in Exceptions THEN outcome
    ELSE ""

\* _do_one: if result is None
result_never_none(outcome) == FALSE
result_is_none(outcome) == outcome = "timeout" /\ Raises(outcome) = ""

\* _do_one: result = _summarize_with_ai(node, model); if result is None
BatchSummarize(w, outcome) ==
    /\ job[w].pc = "call"
    /\ bLog' = Append(bLog, Event("call", job[w].node, outcome))
    /\ IF result_is_none(outcome)
       THEN /\ tree' = [tree EXCEPT ![job[w].node].summary =
                           Summ("Summary timed out", "", 0, <<>>)]
            /\ Finish(w, "", "timeout")
       ELSE /\ job' = [job EXCEPT
                         ![w].pc = IF Raises(outcome) # "" THEN "except"
                                   ELSE "store",
                         ![w].result = IF outcome = "ok" THEN "AI summary"
                                       ELSE "Could not generate summary",
                         ![w].exc = Raises(outcome)]
            /\ UNCHANGED <<tree, futures, bpc, bDone>>
    /\ abandoned' = IF /\ outcome = "timeout"
                       /\ Cardinality(DOMAIN abandoned) < MaxAbandoned
                    THEN (job[w].node :> "running") @@ abandoned
                    ELSE abandoned
    /\ UNCHANGED <<workers, cache, bCacheFile, pending>>
    /\ UNCHANGED <<bTmpFile, bSaveHist, bRun, bPrevTree>>
    /\ UNCHANGED notBatch

\* _do_one: with cache_lock: the node and the cache entry are written
BatchStore(w) ==
    /\ job[w].pc = "store"
    /\ LET o == job[w].node
           key == cache_key(tree[o])
       IN  /\ tree' = [tree EXCEPT
                         ![o].summary = Entry(job[w].result).summary,
                         ![o].pseudocode = Entry(job[w].result).pseudocode]
           /\ cache' = [cache EXCEPT !.entries =
                           (key :> Entry(job[w].result)) @@ @]
    /\ Finish(w, "", "success")
    /\ UNCHANGED <<workers, bCacheFile, pending, bLog>>
    /\ UNCHANGED <<bTmpFile, bSaveHist, abandoned, bRun, bPrevTree>>
    /\ UNCHANGED notBatch

\* except Exception as e:
CaughtNothing(exc) == FALSE
Caught(exc) == exc \in Exceptions \cup {"TimeoutError"}

\* _do_one: the handler writes the failure summary; an exception it does
\* not catch leaves _do_one
BatchExcept(w) ==
    /\ job[w].pc = "except"
    /\ IF Caught(job[w].exc)
       THEN /\ tree' = [tree EXCEPT ![job[w].node].summary =
                           Summ("Summary generation failed", "", 0, <<>>)]
            /\ Finish(w, "", "failure")
       ELSE /\ Finish(w, job[w].exc, "raised")
            /\ UNCHANGED tree
    /\ UNCHANGED <<workers, cache, bCacheFile, pending, bLog>>
    /\ UNCHANGED <<bTmpFile, bSaveHist, abandoned, bRun, bPrevTree>>
    /\ UNCHANGED notBatch

\* _dispatch_work with a pool: for future in as_completed(futs) has seen
\* every future and none held a ConnectionError
PoolLeftEarly == TRUE
PoolDrained ==
    \A o \in DOMAIN futures :
        futures[o].state = "done" /\ futures[o].exc # "ConnectionError"

\* _dispatch_work returns (the loop is over; the pool is left when every
\* future has run), or as_completed yields a future that holds a
\* ConnectionError and the exception raised reaches analyze() once the
\* pool is left
BatchDispatchEnd ==
    /\ IF workers = 1
       THEN /\ bpc = "dispatch" /\ pending = <<>> /\ job[1].pc = "idle"
            /\ bpc' = "dirs"
       ELSE \/ /\ bpc = "dispatch"
               /\ PoolDrained
               /\ bpc' = "dirs"
            \/ /\ bpc = "dispatch"
               /\ \E o \in DOMAIN futures :
                     futures[o].state = "done"
                     /\ futures[o].exc = "ConnectionError"
               /\ bpc' = "raising"
            \/ /\ bpc = "raising"
               /\ \A o \in DOMAIN futures : futures[o].state = "done"
               /\ bpc' = Propagate("ConnectionError")
    /\ UNCHANGED <<tree, workers, cache, bCacheFile, pending, job, futures, bLog>>
    /\ UNCHANGED <<bTmpFile, bSaveHist, abandoned, bRun, bPrevTree>>
    /\ UNCHANGED bDone
    /\ UNCHANGED notBatch

\* analyze(): _summarize_directories(all_nodes)
BatchDirectories ==
    /\ bpc = "dirs"
    /\ tree' = summarize_directories(tree, collect_nodes(tree, BatchRoot, 0))
    /\ bLog' = Append(bLog, Event("dirs", NoObj, ""))
    /\ bpc' = "save"
    /\ UNCHANGED <<workers, cache, bCacheFile, pending, job, futures>>
    /\ UNCHANGED <<bTmpFile, bSaveHist, abandoned, bRun, bPrevTree>>
    /\ UNCHANGED bDone
    /\ UNCHANGED notBatch

\* _save_cache: where json.dump writes the record
SaveTargetDirect == "file"
SaveTarget == "tmp"

\* analyze(): _save_cache(cache_path, cache) begins: NamedTemporaryFile
BatchSaveCreate ==
    /\ bpc = "save"
    /\ bTmpFile' = [exists |-> TRUE, complete |-> FALSE, data |-> EmptyCache("")]
    /\ bSaveHist' = [prev |-> bCacheFile, outcome |-> "none"]
    /\ bLog' = Append(bLog, Event("save", NoObj, ""))
    /\ bpc' = "save_write"
    /\ UNCHANGED <<tree, workers, cache, bCacheFile, pending, job, futures,
                   abandoned, bRun, bPrevTree>>
    /\ UNCHANGED bDone
    /\ UNCHANGED notBatch

\* _save_cache: json.dump has written a part of the record
BatchSaveWrite ==
    /\ bpc = "save_write"
    /\ IF SaveTarget = "tmp"
       THEN /\ bTmpFile' = [bTmpFile EXCEPT !.data = Torn]
            /\ UNCHANGED bCacheFile
       ELSE /\ bCacheFile' = Torn
            /\ UNCHANGED bTmpFile
    /\ bpc' = "save_flush"
    /\ UNCHANGED <<tree, workers, cache, pending, job, futures, bLog,
                   bSaveHist, abandoned, bRun, bPrevTree>>
    /\ UNCHANGED bDone
    /\ UNCHANGED notBatch

\* _save_cache: the rest is written; fd.flush(), os.fsync, fd.close()
BatchSaveFlush ==
    /\ bpc = "save_flush"
    /\ IF SaveTarget = "tmp"
       THEN /\ bTmpFile' = [bTmpFile EXCEPT !.data = cache, !.complete = TRUE]
            /\ UNCHANGED bCacheFile
       ELSE /\ bCacheFile' = cache
            /\ UNCHANGED bTmpFile
    /\ bpc' = "save_replace"
    /\ UNCHANGED <<tree, workers, cache, pending, job, futures, bLog,
                   bSaveHist, abandoned, bRun, bPrevTree>>
    /\ UNCHANGED bDone
    /\ UNCHANGED notBatch

\* _save_cache: os.replace(tmp_path, path); analyze() returns
BatchSaveReplace ==
    /\ bpc = "save_replace"
    /\ bCacheFile' = IF SaveTarget = "tmp" THEN bTmpFile.data ELSE bCacheFile
    /\ bTmpFile' = NoTmp
    /\ bSaveHist' = [bSaveHist EXCEPT !.outcome = "ok"]
    /\ bpc' = "done"
    /\ UNCHANGED <<tree, workers, cache, pending, job, futures, bLog,
                   abandoned, bRun, bPrevTree>>
    /\ UNCHANGED bDone
    /\ UNCHANGED notBatch

\* _save_cache: an OSError at any of its steps (creating the temporary
\* file, writing, closing, renaming): the warning is printed and the
\* temporary file, if there is one, is unlinked; an OSError of os.unlink is
\* passed over and the file stays; analyze() returns
BatchSaveFails(unlinked) ==
    /\ bpc \in {"save", "save_write", "save_flush", "save_replace"}
    /\ bTmpFile.exists \/ unlinked
    /\ bTmpFile' = IF unlinked THEN NoTmp ELSE bTmpFile
    /\ bSaveHist' = [prev |-> IF bpc = "save" THEN bCacheFile
                               ELSE bSaveHist.prev,
                     outcome |-> IF unlinked THEN "failed"
                                 ELSE "failed, temporary file left"]
    /\ bLog' = IF bpc = "save" THEN Append(bLog, Event("save", NoObj, ""))
               ELSE bLog
    /\ bpc' = "done"
    /\ UNCHANGED <<tree, workers, cache, bCacheFile, pending, job, futures,
                   abandoned, bRun, bPrevTree>>
    /\ UNCHANGED bDone
    /\ UNCHANGED notBatch

\* _summarize_with_ai after a timeout: future.cancel() cannot stop the
\* running call and the pool is shut down without waiting; the value the
\* call returns later is kept by the future, which nothing reads
AbandonedResultApplied == TRUE
AbandonedResultRead == FALSE

\* the abandoned call of node o completes
BatchLateCompletion(o) ==
    /\ o \in DOMAIN abandoned
    /\ abandoned[o] = "running"
    /\ abandoned' = [abandoned EXCEPT ![o] = "completed"]
    /\ IF AbandonedResultRead
       THEN /\ tree' = [tree EXCEPT
                          ![o].summary = Summ("AI summary", "", 0, <<>>),
                          ![o].pseudocode = "pseudocode"]
            /\ cache' = [cache EXCEPT !.entries =
                            (cache_key(tree[o]) :> Entry("AI summary")) @@ @]
       ELSE UNCHANGED <<tree, cache>>
    /\ UNCHANGED <<workers, bCacheFile, bpc, pending, job, futures, bLog,
                   bTmpFile, bSaveHist, bRun, bPrevTree>>
    /\ UNCHANGED bDone
    /\ UNCHANGED notBatch

NextBatch ==
    \/ BatchStart
    \/ BatchNoAi
    \/ BatchScore
    \/ BatchRollup
    \/ \E w \in 1..MaxWorkers : BatchTake(w)
    \/ \E w \in 1..MaxWorkers : BatchSmall(w)
    \/ \E w \in 1..MaxWorkers : BatchLookup(w)
    \/ \E w \in 1..MaxWorkers, outcome \in BatchOutcomes :
         BatchSummarize(w, outcome)
    \/ \E w \in 1..MaxWorkers : BatchStore(w)
    \/ \E w \in 1..MaxWorkers : BatchExcept(w)
    \/ BatchDispatchEnd
    \/ BatchDirectories
    \/ BatchSaveCreate
    \/ BatchSaveWrite
    \/ BatchSaveFlush
    \/ BatchSaveReplace
    \/ \E unlinked \in BOOLEAN : BatchSaveFails(unlinked)
    \/ \E o \in DOMAIN abandoned : BatchLateCompletion(o)

SpecBatch == InitBatch /\ [][NextBatch]_vars

----------------------------------------------------------------------------
(* SpecRerun: analyze() is run again on the same directory, after the      *)
(* function g may have been edited; the cache file is what connects the    *)
(* runs.                                                                   *)

MaxRuns == 2

\* the sources g can have: the original three lines, three other lines,
\* two lines
SrcB == <<"b", LF, Letter, LF, Letter, LF>>
GSources == {Src3, SrcB, SrcOf(MIN_LINES_FOR_AI - 1)}

\* the tree scan_directory and parse_directory build when g has the source
\* gsrc: g, the file f that holds it and the lines of h follow the edit
TreeWith(gsrc) ==
    LET h == BatchTree(MIN_LINES_FOR_AI - 1)
        n == Len(splitlines(gsrc))
        g == Obj(FuncId, 0)
        f == Obj(FileId, 0)
        m == Obj(MethId, 0)
    IN  [h EXCEPT ![g].source = gsrc, ![g].end_line = n, ![g].line_count = n,
                  ![f].source = gsrc \o h[m].source,
                  ![f].end_line = n + h[m].line_count,
                  ![f].line_count = n + h[m].line_count,
                  ![m].start_line = n + 1,
                  ![m].end_line = n + h[m].line_count]

InitRerun ==
    /\ SpliceIdle /\ EditorIdle /\ ServerIdle /\ AuxIdle
    /\ tree = TreeWith(Src3)
    /\ workers = 1
    /\ cache = EmptyCache("")
    /\ \E m \in {"", Model} :
         bCacheFile = [model |-> m,
                       entries |-> IF m = "" THEN <<>>
                                   ELSE (cache_key(TreeWith(SrcB)[Obj(FuncId, 0)])
                                         :> Entry("AI summary"))]
    /\ bpc = "start"
    /\ pending = <<>>
    /\ job = [w \in 1..MaxWorkers |-> NoJob]
    /\ futures = <<>>
    /\ bLog = <<>>
    /\ bTmpFile = NoTmp
    /\ bSaveHist = [prev |-> bCacheFile, outcome |-> "none"]
    /\ abandoned = <<>>
    /\ bRun = 1
    /\ bPrevTree = NoPrev
    /\ bDone = [o \in DOMAIN tree |-> <<>>]

\* every call of the summarizer in this run returned a summary that was
\* stored, and the cache was saved
RunClean ==
    /\ \A i \in DOMAIN bLog :
          bLog[i].ev = "call" => bLog[i].outcome \in {"ok", "garbage"}
    /\ bSaveHist.outcome = "ok"

\* analyze() has returned and is called again: the tree is scanned and
\* parsed anew (no summary, no quality), the cache is loaded from the file;
\* calls abandoned by the run before are not followed any further
BatchRerun(gsrc) ==
    /\ bpc = "done"
    /\ bRun < MaxRuns
    /\ bRun' = bRun + 1
    /\ bPrevTree' = [nodes |-> tree, clean |-> RunClean]
    /\ tree' = TreeWith(gsrc)
    /\ cache' = EmptyCache("")
    /\ bpc' = "start"
    /\ pending' = <<>>
    /\ job' = [w \in 1..MaxWorkers |-> NoJob]
    /\ futures' = <<>>
    /\ bLog' = <<>>
    /\ bTmpFile' = NoTmp
    /\ bSaveHist' = [prev |-> bCacheFile, outcome |-> "none"]
    /\ abandoned' = <<>>
    /\ bDone' = [o \in DOMAIN tree |-> <<>>]
    /\ UNCHANGED <<workers, bCacheFile>>
    /\ UNCHANGED notBatch

NextRerun ==
    \/ BatchStart
    \/ BatchScore
    \/ BatchRollup
    \/ \E w \in 1..MaxWorkers : BatchTake(w)
    \/ \E w \in 1..MaxWorkers : BatchSmall(w)
    \/ \E w \in 1..MaxWorkers : BatchLookup(w)
    \/ \E w \in 1..MaxWorkers, outcome \in BatchOutcomes :
         BatchSummarize(w, outcome)
    \/ \E w \in 1..MaxWorkers : BatchStore(w)
    \/ \E w \in 1..MaxWorkers : BatchExcept(w)
    \/ BatchDispatchEnd
    \/ BatchDirectories
    \/ BatchSaveCreate
    \/ BatchSaveWrite
    \/ BatchSaveFlush
    \/ BatchSaveReplace
    \/ \E unlinked \in BOOLEAN : BatchSaveFails(unlinked)
    \/ \E o \in DOMAIN abandoned : BatchLateCompletion(o)
    \/ \E gsrc \in GSources : BatchRerun(gsrc)

SpecRerun == InitRerun /\ [][NextRerun]_vars

----------------------------------------------------------------------------
(* Claims about the batch run *)

IsCall(e, outcomes) == e.ev = "call" /\ e.outcome \in outcomes
\* analyze() is past _run_ai_batch
PastDispatch ==
    bpc \in {"dirs", "save", "save_write", "save_flush", "save_replace", "done"}
AiNodes == select_ai_nodes(tree, collect_nodes(tree, BatchRoot, 0))

\* C9: when a summarizer call fails with a connectivity error the batch
\* aborts: no summarizer call is made after it in a serial run, directory
\* synthesis does not run, and the run does not end as a completed
\* analysis.
C9_ConnectivityAborts ==
    \A i \in DOMAIN bLog :
        IsCall(bLog[i], {"ConnectionError"}) =>
            /\ \A j \in DOMAIN bLog :
                 j > i => /\ bLog[j].ev # "dirs"
                          /\ workers = 1 => bLog[j].ev # "call"
            /\ ~PastDispatch

\* C10: a node whose summarizer call raised an exception other than a
\* connectivity failure ends with 'Summary generation failed' and without
\* a cache entry (in the cache of the run and in the cache file of this
\* model), the run is not aborted, and when the dispatch is over every
\* selected node has its outcome.
C10_NodeFailureContained ==
    /\ \A i \in DOMAIN bLog :
         IsCall(bLog[i], {"ValueError", "RuntimeError"}) =>
            LET o == bLog[i].node
            IN  /\ bpc \notin {"exited", "crashed", "raising"}
                /\ cache_key(tree[o]) \notin DOMAIN cache.entries
                /\ bCacheFile.model = Model =>
                      cache_key(tree[o]) \notin DOMAIN bCacheFile.entries
                /\ (\A w \in 1..MaxWorkers : job[w].node # o) =>
                      tree[o].summary =
                          Summ("Summary generation failed", "", 0, <<>>)
                /\ PastDispatch =>
                      \A k \in 1..Len(AiNodes) : tree[AiNodes[k]].summary # None

\* the run is complete, the call for one node raised ValueError and a node
\* taken up after it got its AI summary
C10_Witness ==
    /\ bpc = "done"
    /\ \E i, j \in DOMAIN bLog :
         /\ i < j
         /\ IsCall(bLog[i], {"ValueError"})
         /\ IsCall(bLog[j], {"ok"})
         /\ tree[bLog[i].node].summary =
                Summ("Summary generation failed", "", 0, <<>>)
         /\ tree[bLog[j].node].summary = Summ("AI summary", "", 0, <<>>)

\* the file, class, function and method nodes of the tree
WorkNodes ==
    {o \in DOMAIN tree :
        tree[o].node_type \in {"file", "class", "function", "method"}}
CallsFor(o) ==
    Cardinality({i \in DOMAIN bLog : bLog[i].ev = "call" /\ bLog[i].node = o})
\* where a node is: waiting in the list, with a worker, or processed
Places(o) ==
    Cardinality({k \in DOMAIN pending : pending[k] = o})
    + Cardinality({w \in 1..MaxWorkers : job[w].node = o})
    + Len(bDone[o])
Dispatched == bpc \notin {"start", "score", "rollup", "done_no_ai"}
\* the summary each terminal outcome leaves
SummaryFits(kind, summary) ==
    CASE kind = "small" -> summary.kind = "Small"
      [] kind = "hit" -> summary.kind \in {"AI summary", "Could not generate summary"}
      [] kind = "success" -> summary.kind \in {"AI summary", "Could not generate summary"}
      [] kind = "timeout" -> summary.kind = "Summary timed out"
      [] kind = "failure" -> summary.kind = "Summary generation failed"
      [] OTHER -> FALSE

\* C11: in one batch run every file, class, function and method node is
\* processed exactly once (it is in the list, with one worker, or done,
\* never in two of these), ends in one terminal outcome with the summary
\* of that outcome, gets at most one summarizer call, and once the
\* dispatch is over every such node has its outcome.
C11_ExactlyOnce ==
    \A o \in WorkNodes :
        /\ Len(bDone[o]) <= 1
        /\ CallsFor(o) <= 1
        /\ bDone[o] # <<>> => SummaryFits(bDone[o][1], tree[o].summary)
        /\ Dispatched => Places(o) = 1
        /\ PastDispatch => Len(bDone[o]) = 1

\* a pool run is complete: f timed out, g came from the cache, k was
\* too small
C11_Witness ==
    /\ bpc = "done" /\ workers > 1
    /\ bDone[Obj(FileId, 0)] = <<"timeout">>
    /\ bDone[Obj(FuncId, 0)] = <<"hit">>
    /\ bDone[Obj(SevereId, 0)] = <<"small">>

PhaseRank(ev) ==
    CASE ev = "score" -> 1 [] ev = "rollup" -> 2 [] ev = "call" -> 3
      [] ev = "dirs" -> 4 [] OTHER -> 5
Logged(ev) == \E i \in DOMAIN bLog : bLog[i].ev = ev
TimesLogged(ev) == Cardinality({i \in DOMAIN bLog : bLog[i].ev = ev})

\* C12: the phases of a batch run are strictly ordered: scoring, then the
\* roll-up, then the AI analysis (no worker holds a node before the
\* roll-up is over), then directory synthesis (only when no worker holds
\* a node and none is left in the list), then the one save of the cache;
\* the cache file changes only in that save.
C12_PhasesOrdered ==
    /\ \A i, j \in DOMAIN bLog :
         i < j => PhaseRank(bLog[i].ev) <= PhaseRank(bLog[j].ev)
    /\ \A ev \in {"score", "rollup", "dirs", "save"} : TimesLogged(ev) <= 1
    /\ Logged("rollup") => Logged("score")
    /\ (\E w \in 1..MaxWorkers : job[w].pc # "idle") => Logged("rollup")
    /\ Logged("dirs") =>
         /\ pending = <<>>
         /\ \A w \in 1..MaxWorkers : job[w].pc = "idle"
    /\ Logged("save") => Logged("dirs")
    /\ bCacheFile # bSaveHist.prev => Logged("save") /\ bSaveHist.outcome = "ok"
    /\ bpc = "done" => TimesLogged("save") = 1

\* a pool run with a summarizer call is complete and its cache is saved
C12_Witness ==
    /\ bpc = "done" /\ workers > 1
    /\ Logged("call")
    /\ bSaveHist.outcome = "ok"
    /\ bCacheFile # bSaveHist.prev

DepthOf(o) ==
    LET all == collect_nodes(tree, BatchRoot, 0)
    IN  all[CHOOSE k \in DOMAIN all : all[k][1] = o][2]
IsFile(o) == tree[o].node_type = "file"
IsCode(o) == tree[o].node_type \in {"class", "function", "method"}
\* a may come before b in the work list
MayPrecede(a, b) ==
    /\ ~(IsCode(a) /\ IsFile(b))
    /\ (IsFile(a) <=> IsFile(b)) => DepthOf(a) <= DepthOf(b)
TakenUp(o) == (\E w \in 1..MaxWorkers : job[w].node = o) \/ bDone[o] # <<>>

\* C13: the AI work list holds every file node in ascending depth, then
\* every class, function and method node in ascending depth, and no
\* directory; nodes are taken up (by the serial loop, by the pool) in this
\* order, and in a serial run the summarizer calls follow it.
C13_WorkOrder ==
    Dispatched =>
        /\ \A k \in DOMAIN pending : pending[k] \in WorkNodes
        /\ \A o \in WorkNodes : TakenUp(o) \/ \E k \in DOMAIN pending : pending[k] = o
        /\ \A k, l \in DOMAIN pending : k < l => MayPrecede(pending[k], pending[l])
        /\ \A o \in WorkNodes, k \in DOMAIN pending :
             TakenUp(o) => MayPrecede(o, pending[k])
        /\ workers = 1 =>
             \A i, j \in DOMAIN bLog :
                (i < j /\ bLog[i].ev = "call" /\ bLog[j].ev = "call")
                    => MayPrecede(bLog[i].node, bLog[j].node)

\* a serial run has done the file f at depth 1 and is at the file f2 at
\* depth 2, which comes first in the tree; the functions wait
C13_Witness ==
    /\ workers = 1
    /\ bDone[Obj(FileId, 0)] # <<>>
    /\ job[1].node = Obj(File2Id, 0)
    /\ pending = <<Obj(FuncId, 0), Obj(MethId, 0), Obj(SevereId, 0)>>

----------------------------------------------------------------------------
(* Claims about a second run *)

\* the tree of this run has the sources of the run before
SameSources ==
    /\ bRun > 1
    /\ \A o \in DOMAIN tree : tree[o].source = bPrevTree.nodes[o].source
NoCalls == \A i \in DOMAIN bLog : bLog[i].ev # "call"
SameResults ==
    \A o \in DOMAIN tree :
        /\ tree[o].summary = bPrevTree.nodes[o].summary
        /\ tree[o].pseudocode = bPrevTree.nodes[o].pseudocode

Edited(o) == bRun > 1 /\ tree[o].source # bPrevTree.nodes[o].source
StoredAtStart(o) ==
    /\ bSaveHist.prev.model = Model
    /\ cache_key(tree[o]) \in DOMAIN bSaveHist.prev.entries

----------------------------------------------------------------------------
(* Claims about the cache and the model it was written for *)

\* C16 as stated: the summary stored by another model never reaches a node,
\* and every record written to the cache file carries the current model
\* id and none of the other model's entries.
C16_ModelChangeDiscards ==
    /\ \A o \in DOMAIN heap : heap[o].summary # StaleEntry.summary
    /\ cacheFile # StaleCache =>
          /\ cacheFile.model = Model
          /\ \A k \in DOMAIN cacheFile.entries : cacheFile.entries[k] # StaleEntry

\* C16: analyze_single_node empties a record of another model before it
\* looks a key up or stores one: the summary stored by another model never
\* reaches a node or a response, and a record that carries the current
\* model id holds none of the other model's entries. Only the replace path
\* writes a record of another model back: as it was loaded, without the key
\* of the replaced node.
C16_NoCrossModelSummary ==
    /\ \A o \in DOMAIN heap : heap[o].summary # StaleEntry.summary
    /\ lastResp.dict.summary # StaleEntry.summary
    /\ cacheFile.model = Model =>
          \A k \in DOMAIN cacheFile.entries : cacheFile.entries[k] # StaleEntry
    /\ cacheFile.model # Model =>
          /\ cacheFile.model = StaleCache.model
          /\ \A k \in DOMAIN cacheFile.entries :
                /\ k \in DOMAIN StaleCache.entries
                /\ cacheFile.entries[k] = StaleCache.entries[k]
          /\ cacheFile # StaleCache => replaces > 0

\* g, for which the other model had left an entry, was analyzed: the
\* summarizer was called and the record written carries the current model
C16_Witness ==
    LET g == Obj(FuncId, 0)
    IN  /\ g \in DOMAIN heap
        /\ cache_key(heap[g]) \in DOMAIN StaleCache.entries
        /\ aiCalls[g] = 1
        /\ heap[g].summary = Summ("AI summary", "", 0, <<>>)
        /\ cacheFile.model = Model
        /\ cache_key(heap[g]) \in DOMAIN cacheFile.entries

----------------------------------------------------------------------------
(* Claims about _save_cache *)

SaveFailed == bSaveHist.outcome \in {"failed", "failed, temporary file left"}
\* the cache file holds the whole record it held before the save or the
\* whole record that is saved
WholeRecord ==
    /\ bCacheFile # Torn
    /\ \/ bCacheFile = bSaveHist.prev
       \/ bSaveHist.outcome = "ok" /\ bCacheFile = cache

\* C17 as stated: the cache file holds the whole previous or the whole new
\* record at every point of a save; a save that failed has removed its
\* temporary file, has left the previous record and has returned.
C17_SaveAtomic ==
    /\ WholeRecord
    /\ SaveFailed =>
          /\ ~bTmpFile.exists
          /\ bCacheFile = bSaveHist.prev
          /\ bpc = "done"

\* C17: the cache file holds the whole previous or the whole new record at
\* every point of a save; a save that failed has left the previous record
\* and has returned without raising, and its temporary file is gone unless
\* os.unlink failed as well.
C17_SaveAtomicUnlinkTried ==
    /\ WholeRecord
    /\ SaveFailed =>
          /\ bCacheFile = bSaveHist.prev
          /\ bpc = "done"
    /\ bSaveHist.outcome = "failed" => ~bTmpFile.exists
    /\ bSaveHist.outcome = "ok" => ~bTmpFile.exists /\ bCacheFile = cache

\* a save of a record with a new entry has failed: the file still holds
\* the record of the run before
C17_Witness ==
    /\ bSaveHist.outcome = "failed"
    /\ bpc = "done"
    /\ bSaveHist.prev.model = Model
    /\ bSaveHist.prev.entries # <<>>
    /\ cache # bCacheFile
    /\ bCacheFile = bSaveHist.prev
    /\ ~bTmpFile.exists

----------------------------------------------------------------------------
(* Claims about the outcomes of a summarizer call *)

Called(o) == \E i \in DOMAIN bLog : bLog[i].ev = "call" /\ bLog[i].node = o
OutcomeOf(o) ==
    bLog[CHOOSE i \in DOMAIN bLog : bLog[i].ev = "call" /\ bLog[i].node = o].outcome
Cached(o) == cache_key(tree[o]) \in DOMAIN cache.entries

C19_LateResultIgnored ==
    \A o \in DOMAIN abandoned :
        /\ tree[o].summary.kind = "Summary timed out"
        /\ tree[o].pseudocode = "None"
        /\ ~Cached(o)
        /\ cache_key(tree[o]) \notin DOMAIN bTmpFile.data.entries
        /\ bCacheFile.model = Model =>
              cache_key(tree[o]) \notin DOMAIN bCacheFile.entries

\* the call for f was abandoned and has completed, the run is over and the
\* cache is saved
C19_Witness ==
    LET f == Obj(FileId, 0)
    IN  /\ f \in DOMAIN abandoned
        /\ abandoned[f] = "completed"
        /\ bDone[f] = <<"timeout">>
        /\ bpc = "done"
        /\ bSaveHist.outcome = "ok"

----------------------------------------------------------------------------
(* Claims about the quality of parents *)

HasChildren(o) == tree[o].children # <<>>
ChildRanks(o) ==
    {QualityRank(tree[tree[o].children[k]].quality) :
        k \in 1..Len(tree[o].children)}
WorstChildRank(o) == CHOOSE r \in ChildRanks(o) : \A q \in ChildRanks(o) : q <= r
Completed == bpc \in {"done", "done_no_ai"}

----------------------------------------------------------------------------
(* SpecIds: node ids.  assign_node_ids walks the tree from the root and    *)
(* gives every node the digest of its chain of (type, name) pairs; a       *)
(* successful replace updates the node and has the file parsed again,      *)
(* which puts new objects under the file node and rebuilds node_lookup.    *)

MaxKids == 2        \* top-level nodes one parse of the file can give
MaxEdits == 2       \* successful replaces

\* an object of the tree: <<parse that created it, top-level position,
\* position in its class>>; position 0 holds the nodes no parse replaces
IdObj(gen, k, m) == <<gen, k, m>>
IdRoot == IdObj(0, 0, 0)            \* the root directory
IdFile == IdObj(0, 0, 1)            \* the file that is edited
IdFile2 == IdObj(0, 0, 2)           \* another file
IdFunc2 == IdObj(0, 0, 3)           \* the function of the other file

\* a path: relative to the root directory or absolute under it
RelPath(rel) == [abs |-> FALSE, rel |-> rel]
AbsPath(rel) == [abs |-> TRUE, rel |-> rel]
\* _resolve_filepath: os.path.join(cache_dir, filepath) unless absolute
resolve_filepath(n) == AbsPath(n.filepath.rel)

\* what the parser finds in a file: functions and classes at the top
\* level, methods in a class; two nodes may bear the same name
KidDescs ==
    { [node_type |-> "function", name |-> "a", methods |-> <<>>],
      [node_type |-> "class", name |-> "a", methods |-> <<"a">>] }
ParseResults == SeqsUpTo(KidDescs, MaxKids)
NewTexts == {"s1"}

IdNode(name, type, path, src, kids) ==
    [name |-> name, node_type |-> type, filepath |-> path, source |-> src,
     children |-> kids, node_id |-> "None"]

\* parse_file(filepath, language): the children of the file node; every
\* node under the file bears the path the parser was given
parsed_children(parsed, gen) == [k \in DOMAIN parsed |-> IdObj(gen, k, 0)]
parsed_objects(parsed, gen, path, text) ==
    LET tops == { k \in DOMAIN parsed : TRUE }
        meths == { k \in DOMAIN parsed : parsed[k].methods # <<>> }
    IN  [o \in {IdObj(gen, k, 0) : k \in tops}
               \cup {IdObj(gen, k, 1) : k \in meths} |->
            IF o[3] = 0
            THEN IdNode(parsed[o[2]].name, parsed[o[2]].node_type, path, text,
                        IF parsed[o[2]].methods # <<>>
                        THEN <<IdObj(gen, o[2], 1)>> ELSE <<>>)
            ELSE IdNode(parsed[o[2]].methods[1], "method", path, text, <<>>)]

\* "::".join(path_parts)
RECURSIVE JoinParts(_)
JoinParts(parts) ==
    IF Len(parts) = 1 THEN parts[1]
    ELSE parts[1] \o "::" \o JoinParts(Tail(parts))
\* md5(key).hexdigest()[:12]; the digest is taken as injective
md5_hex12(key) == "md5:" \o key

\* child_parts = path_parts + [child.node_type, child.name]
child_parts_with_source(path_parts, child) ==
    path_parts \o <<child.node_type, child.name, child.source>>
child_parts(path_parts, child) ==
    path_parts \o <<child.node_type, child.name>>

\* _walk(node, path_parts): the nodes in the order they are visited, each
\* with its path_parts
RECURSIVE walk(_, _, _)
walk(h, o, path_parts) ==
    LET kids == h[o].children
        sub[k \in 0..Len(kids)] ==
            IF k = 0 THEN << <<o, path_parts>> >>
            ELSE sub[k - 1]
                 \o walk(h, kids[k], child_parts(path_parts, h[kids[k]]))
    IN  sub[Len(kids)]

\* assign_node_ids(root): node.node_id is set on every node visited and
\* lookup[node_id] = node; a later node overwrites an earlier one of the
\* same id
AssignNodeIds(h, root) ==
    LET visits == walk(h, root, <<h[root].name>>)
        idAt(i) == md5_hex12(JoinParts(visits[i][2]))
        last(id) == CHOOSE i \in DOMAIN visits :
                        /\ idAt(i) = id
                        /\ \A j \in DOMAIN visits : idAt(j) = id => j <= i
    IN  [heap |-> [o \in DOMAIN h |->
                     IF \E i \in DOMAIN visits : visits[i][1] = o
                     THEN [h[o] EXCEPT !.node_id =
                             idAt(CHOOSE i \in DOMAIN visits : visits[i][1] = o)]
                     ELSE h[o]],
         lookup |-> [id \in {idAt(i) : i \in DOMAIN visits} |->
                        visits[last(id)][1]]]

\* the tree: root directory r > file f.py > what the parser found, and
\* file g.py > function a.  parse_directory leaves a relative path in the
\* file node and the absolute path in the nodes under it; a tree made with
\* parse_file alone has one path in all of them.
IdTree(filePath, kidPath, parsed) ==
    (IdRoot :> IdNode("r", "directory", AbsPath(""), "", <<IdFile, IdFile2>>))
    @@ (IdFile :> IdNode("f.py", "file", filePath, "s0",
                         parsed_children(parsed, 0)))
    @@ (IdFile2 :> IdNode("g.py", "file", RelPath("g.py"), "s0", <<IdFunc2>>))
    @@ (IdFunc2 :> IdNode("a", "function", AbsPath("g.py"), "s0", <<>>))
    @@ parsed_objects(parsed, 0, kidPath, "s0")

NoIdPrev == [paths |-> {}, ids |-> {}, refreshed |-> FALSE]

InitIds ==
    /\ SpliceIdle /\ EditorIdle /\ ServerIdle /\ BatchIdle /\ FrontIdle
    /\ LifeIdle /\ NodeIdle /\ MoreIdle
    /\ \E filePath \in {RelPath("f.py"), AbsPath("f.py")},
          parsed \in ParseResults :
         \E kidPath \in {filePath, AbsPath("f.py")} :
            LET a == AssignNodeIds(IdTree(filePath, kidPath, parsed), IdRoot)
            IN  idHeap = a.heap /\ idLookup = a.lookup
    /\ idEdits = 0
    /\ idPrev = NoIdPrev

\* the structural path of every node of the tree: the (type, name) pairs
\* from the root down to it
RECURSIVE PathsFrom(_, _, _)
PathsFrom(h, o, path) ==
    {<<o, path>>}
    \cup UNION { PathsFrom(h, h[o].children[k],
                           Append(path, <<h[h[o].children[k]].node_type,
                                          h[h[o].children[k]].name>>))
                 : k \in DOMAIN h[o].children }
TreePaths(h) == PathsFrom(h, IdRoot, << <<"root", h[IdRoot].name>> >>)
Snapshot(h, lookup, refreshed) ==
    [paths |-> {<<op[2], h[op[1]].node_id>> : op \in TreePaths(h)},
     ids |-> DOMAIN lookup, refreshed |-> refreshed]

\* the file node that owns a node: the first node of node_lookup with
\* node_type "file" and the same filepath
IdFileOf(h, lookup, n) ==
    {lookup[i] : i \in {j \in DOMAIN lookup :
                          /\ h[lookup[j]].node_type = "file"
                          /\ h[lookup[j]].filepath = n.filepath}}

\* a successful replace of the node of an id: _update_node_after_replace
\* sets its source; _refresh_file_nodes looks for the file node of its
\* path, returns if there is none, and else has the file parsed again, puts
\* the new children under the file node and rebuilds node_lookup
IdsReplace(id, text, parsed) ==
    /\ idEdits < MaxEdits
    /\ id \in DOMAIN idLookup
    /\ idHeap[idLookup[id]].node_type # "directory"
    /\ LET o == idLookup[id]
           h1 == [idHeap EXCEPT ![o].source = text]
           files == IdFileOf(h1, idLookup, h1[o])
       IN  /\ idPrev' = Snapshot(idHeap, idLookup, files # {})
           /\ IF files = {}
              THEN /\ parsed = <<>>
                   /\ idHeap' = h1
                   /\ idLookup' = idLookup
              ELSE LET fo == CHOOSE f \in files : TRUE
                       gen == idEdits + 1
                       h2 == [h1 EXCEPT ![fo].source = text,
                                        ![fo].children =
                                            parsed_children(parsed, gen)]
                       h3 == parsed_objects(parsed, gen,
                                            resolve_filepath(h1[fo]), text)
                             @@ h2
                       live == {op[1] : op \in TreePaths(h3)}
                       a == AssignNodeIds([x \in live |-> h3[x]], IdRoot)
                   IN  idHeap' = a.heap /\ idLookup' = a.lookup
    /\ idEdits' = idEdits + 1
    /\ UNCHANGED notIds

\* a successful replace whose _refresh_file_nodes raises (the file cannot
\* be read or parsed): tree_stale; the node keeps its new source
IdsReplaceStale(id, text) ==
    /\ idEdits < MaxEdits
    /\ id \in DOMAIN idLookup
    /\ idHeap[idLookup[id]].node_type # "directory"
    /\ LET o == idLookup[id]
           h1 == [idHeap EXCEPT ![o].source = text]
       IN  /\ IdFileOf(h1, idLookup, h1[o]) # {}
           /\ idPrev' = Snapshot(idHeap, idLookup, FALSE)
           /\ idHeap' = h1
    /\ idEdits' = idEdits + 1
    /\ UNCHANGED idLookup
    /\ UNCHANGED notIds

NextIds ==
    \/ \E id \in DOMAIN idLookup, text \in NewTexts, parsed \in ParseResults :
           IdsReplace(id, text, parsed)
    \/ \E id \in DOMAIN idLookup, text \in NewTexts : IdsReplaceStale(id, text)

SpecIds == InitIds /\ [][NextIds]_vars

----------------------------------------------------------------------------
(* Claims about node ids *)

\* the nodes of the tree, each with its structural path
IdLive == TreePaths(idHeap)
IdOf(op) == idHeap[op[1]].node_id

\* C21: the id of a node is a function of its chain of (type, name) pairs
\* from the root only: two nodes of one chain have one id, a tree of the
\* same chains as the tree before a replace has the same set of ids, and
\* after a replace (which changes the source of a node and may parse the
\* file again) every node whose chain was in the tree before has the id
\* that chain had, and node_lookup resolves that id to a node that is in
\* the tree now and has that chain.
C21_IdsFollowChains ==
    LET live == IdLive
    IN  /\ \A op1 \in live, op2 \in live :
               op1[2] = op2[2] => IdOf(op1) = IdOf(op2)
        /\ {pi[1] : pi \in idPrev.paths} = {op[2] : op \in live}
               => DOMAIN idLookup = idPrev.ids
        /\ \A op \in live :
               /\ \A pi \in idPrev.paths : pi[1] = op[2] => IdOf(op) = pi[2]
               /\ IdOf(op) \in DOMAIN idLookup
               /\ <<idLookup[IdOf(op)], op[2]>> \in live

\* a replace had the file parsed again; a node under the file is a new
\* object with a new source on a chain the tree had before, and a node
\* outside the file is the object it was
C21_Witness ==
    /\ idEdits > 0 /\ idPrev.refreshed
    /\ \E op \in IdLive :
           /\ op[1][1] = idEdits /\ idHeap[op[1]].source # "s0"
           /\ \E pi \in idPrev.paths : pi[1] = op[2]
           /\ idLookup[IdOf(op)] = op[1]
    /\ \E op \in IdLive : op[1] = IdFunc2

\* C32: assign_node_ids gives every node of the tree an id no other node
\* of the tree has: node_lookup has one entry for each node, and the node an
\* id resolves to bears that id.
C32_IdsUnique ==
    LET objs == {op[1] : op \in IdLive}
    IN  /\ \A o1 \in objs, o2 \in objs :
               o1 # o2 => idHeap[o1].node_id # idHeap[o2].node_id
        /\ Cardinality(DOMAIN idLookup) = Cardinality(objs)
        /\ \A id \in DOMAIN idLookup : idHeap[idLookup[id]].node_id = id

----------------------------------------------------------------------------
(* SpecFront: one POST /api/replace/<id> that carries the session token,   *)
(* from its Content-Length header to its answer: _handle_replace reads     *)
(* and parses the body, _execute_replace tests the request and then runs   *)
(* the replace under the analysis lock.                                    *)

MAX_BODY_SIZE == 10 * 1024 * 1024
MAX_SOURCE_BYTES == 1000000

\* the Content-Length header: absent, a text int() rejects, or a numeral
NoHeader == [kind |-> "none", n |-> 0]
TextHeader == [kind |-> "text", n |-> 0]
NumHeader(n) == [kind |-> "int", n |-> n]
\* int(cl_header)
int_of(h) == [ok |-> h.kind = "int", n |-> h.n]

\* what the client sends as the body: len is the number of bytes it sends;
\* json is "invalid", or the type of the JSON value; of an object, source
\* is "absent", "number" or "text", with the size of the text in
\* characters and in UTF-8 bytes and whether it can be encoded at all (a
\* lone surrogate cannot)
SmallLen == 20
FrBody(json, source, chars, bytes, encodable) ==
    [json |-> json, source |-> source, chars |-> chars, bytes |-> bytes,
     encodable |-> encodable, len |-> SmallLen + bytes]
Bodies ==
    { FrBody("invalid", "absent", 0, 0, TRUE),
      FrBody("array", "absent", 0, 0, TRUE),
      FrBody("object", "absent", 0, 0, TRUE),
      FrBody("object", "number", 0, 0, TRUE),
      FrBody("object", "text", 5, 5, TRUE),
      FrBody("object", "text", 1, 3, FALSE),
      FrBody("object", "text", MAX_SOURCE_BYTES, MAX_SOURCE_BYTES, TRUE),
      FrBody("object", "text", MAX_SOURCE_BYTES - 1, MAX_SOURCE_BYTES + 1, TRUE),
      FrBody("invalid", "absent", 0, MAX_BODY_SIZE - SmallLen, TRUE),
      FrBody("invalid", "absent", 0, MAX_BODY_SIZE - SmallLen + 1, TRUE) }
\* bytes read that stop short of the end of the body are not JSON
CutBody == [FrBody("invalid", "absent", 0, 0, TRUE) EXCEPT !.len = 0]
HeadersFor(b) ==
    {NoHeader, TextHeader}
    \cup {NumHeader(n) : n \in {0 - 1, 0, b.len - 1, b.len, b.len + 1}}

\* paths are sequences of segments; the project root, the template
\* directory of the tool, and the symbolic links of the file system
ProjectRoot == <<"proj">>
TemplatesDir == <<"pkg", "templates">>
Symlinks ==
    (<<"proj", "l.py">> :> <<"etc", "x.py">>)
    @@ (<<"proj", "t.html">> :> <<"pkg", "templates", "interactive.html">>)
\* os.path.realpath
realpath(path) == IF path \in DOMAIN Symlinks THEN Symlinks[path] ELSE path
\* p == d or p.startswith(d + os.sep)
Under(path, dir) ==
    Len(path) >= Len(dir) /\ SubSeq(path, 1, Len(dir)) = dir

\* node_lookup: a directory, a function in a file of the project, and
\* nodes whose file is a link to a file elsewhere or to a template
FrontNodes ==
    ("d" :> [node_type |-> "directory", filepath |-> <<>>])
    @@ ("g" :> [node_type |-> "function", filepath |-> <<"g.py">>])
    @@ ("l" :> [node_type |-> "function", filepath |-> <<"l.py">>])
    @@ ("t" :> [node_type |-> "file", filepath |-> <<"t.html">>])
FrontIds == DOMAIN FrontNodes \cup {"zz"}
\* _resolve_filepath for a relative path
abs_path(n) == ProjectRoot \o n.filepath

FrontRequests ==
    UNION { [id : FrontIds, cl : HeadersFor(b), body : {b},
             arrival : {"stall", "close"}] : b \in Bodies }

NoFrReq == [id |-> "-", cl |-> NoHeader, body |-> CutBody, arrival |-> "-"]
NoFrResp == [status |-> 0, error |-> ""]
NoFx == [read |-> 0, reads |-> 0, timed |-> FALSE, parsed |-> FALSE,
         tested |-> FALSE, locked |-> FALSE, called |-> FALSE,
         changed |-> FALSE]

InitFront ==
    /\ SpliceIdle /\ EditorIdle /\ ServerIdle /\ BatchIdle /\ IdsIdle
    /\ LifeIdle /\ NodeIdle /\ MoreIdle
    /\ frPc = "idle" /\ frReq = NoFrReq /\ frRaw = CutBody
    /\ frResp = NoFrResp /\ frFx = NoFx

FrAnswer(status, error) ==
    /\ frResp' = [status |-> status, error |-> error]
    /\ frPc' = "done"

\* do_POST: the token is right and the path starts with /api/replace/
FrReceive(req) ==
    /\ frPc \in {"idle", "done"}
    /\ frPc' = "length"
    /\ frReq' = req
    /\ frRaw' = CutBody /\ frResp' = NoFrResp /\ frFx' = NoFx
    /\ UNCHANGED notFront

\* content_length > MAX_BODY_SIZE
over_cap_inclusive(n) == n >= MAX_BODY_SIZE
over_cap(n) == n > MAX_BODY_SIZE

\* _handle_replace: the Content-Length header
FrLength ==
    /\ frPc = "length"
    /\ LET h == frReq.cl
           v == int_of(h)
       IN  IF h.kind = "none" THEN FrAnswer(400, "Missing Content-Length")
           ELSE IF ~v.ok \/ v.n < 0 THEN FrAnswer(400, "Invalid Content-Length")
           ELSE IF over_cap(v.n) THEN FrAnswer(413, "Request body too large")
           ELSE frPc' = "read" /\ UNCHANGED frResp
    /\ UNCHANGED <<frReq, frRaw, frFx>>
    /\ UNCHANGED notFront

\* settimeout(30); raw = self.rfile.read(content_length): all the bytes
\* asked for, or the bytes the client sent before it closed, or no more
\* bytes for 30 seconds
FrRead ==
    /\ frPc = "read"
    /\ LET n == int_of(frReq.cl).n
           sent == frReq.body.len
           fx == [frFx EXCEPT !.reads = @ + 1, !.timed = TRUE,
                              !.read = IF n <= sent THEN n ELSE sent]
       IN  IF n > sent /\ frReq.arrival = "stall"
           THEN /\ FrAnswer(408, "Request body read timed out")
                /\ frFx' = fx
                /\ UNCHANGED frRaw
           ELSE /\ frRaw' = IF n < sent THEN CutBody ELSE frReq.body
                /\ frFx' = fx
                /\ frPc' = "json"
                /\ UNCHANGED frResp
    /\ UNCHANGED frReq
    /\ UNCHANGED notFront

\* body = json.loads(raw)
FrJson ==
    /\ frPc = "json"
    /\ IF frRaw.json = "invalid"
       THEN FrAnswer(400, "Invalid JSON") /\ UNCHANGED frFx
       ELSE /\ frPc' = "execute"
            /\ frFx' = [frFx EXCEPT !.parsed = TRUE]
            /\ UNCHANGED frResp
    /\ UNCHANGED <<frReq, frRaw>>
    /\ UNCHANGED notFront

\* the path tests of _execute_replace, on the path as it is given
in_templates_unresolved(n) == Under(abs_path(n), TemplatesDir)
in_templates(n) == Under(realpath(abs_path(n)), TemplatesDir)
inside_root_unresolved(n) == Under(abs_path(n), realpath(ProjectRoot))
inside_root(n) == Under(realpath(abs_path(n)), realpath(ProjectRoot))

\* _execute_replace up to the lock; an exception it raises (body.get on a
\* value that is no object, encode on a lone surrogate) is answered 500 by
\* _handle_replace
FrTest ==
    /\ frPc = "execute"
    /\ frFx' = [frFx EXCEPT !.tested = TRUE]
    /\ IF frReq.id \notin DOMAIN FrontNodes
       THEN FrAnswer(404, "Unknown node ID")
       ELSE LET n == FrontNodes[frReq.id]
            IN  IF n.node_type = "directory"
                THEN FrAnswer(400, "Cannot replace directory blocks")
                ELSE IF frRaw.json # "object"
                THEN FrAnswer(500, "Internal server error")
                ELSE IF frRaw.source = "number"
                THEN FrAnswer(400, "source must be a string")
                ELSE IF ~frRaw.encodable
                THEN FrAnswer(500, "Internal server error")
                ELSE IF frRaw.bytes > MAX_SOURCE_BYTES
                THEN FrAnswer(400, "Replacement too large (max 1MB)")
                ELSE IF in_templates(n)
                THEN FrAnswer(400, "Cannot replace tool template files")
                ELSE IF ~inside_root(n)
                THEN FrAnswer(403, "Path escapes project directory")
                ELSE frPc' = "lock" /\ UNCHANGED frResp
    /\ UNCHANGED <<frReq, frRaw>>
    /\ UNCHANGED notFront

\* with _Handler.analyze_lock:
FrLock ==
    /\ frPc = "lock"
    /\ frPc' = "replace"
    /\ frFx' = [frFx EXCEPT !.locked = TRUE]
    /\ UNCHANGED <<frReq, frRaw, frResp>>
    /\ UNCHANGED notFront

\* replace_block_source and, if it succeeds, the update of the node, the
\* cache and the tree; then the answer
FrReplace(res) ==
    /\ frPc = "replace"
    /\ frFx' = [frFx EXCEPT !.called = TRUE, !.changed = res.success]
    /\ FrAnswer(ReplaceStatus(res), res.error)
    /\ UNCHANGED <<frReq, frRaw>>
    /\ UNCHANGED notFront

NextFront ==
    \/ \E req \in FrontRequests : FrReceive(req)
    \/ FrLength
    \/ FrRead
    \/ FrJson
    \/ FrTest
    \/ FrLock
    \/ \E res \in {Success(1, 1), Failure(ErrModified), Failure(ErrTooLong),
                   Failure(ErrIO)} : FrReplace(res)

SpecFront == InitFront /\ [][NextFront]_vars

----------------------------------------------------------------------------
(* Claims about the replace request *)

\* the tests of _execute_replace, as properties of the request
FrKnown == frReq.id \in DOMAIN FrontNodes
FrNode == FrontNodes[frReq.id]
FrUnknown == ~FrKnown
FrDirectory == FrKnown /\ FrNode.node_type = "directory"
FrBadSource ==
    /\ frRaw.json = "object"
    /\ \/ frRaw.source = "number"
       \/ frRaw.encodable /\ frRaw.bytes > MAX_SOURCE_BYTES
FrInTemplates ==
    FrKnown /\ Under(realpath(ProjectRoot \o FrNode.filepath), TemplatesDir)
FrOutside ==
    FrKnown /\ ~Under(realpath(ProjectRoot \o FrNode.filepath), ProjectRoot)
\* the body is an object whose source, if it has one, is a text that can
\* be encoded
FrWellFormed ==
    frRaw.json = "object" /\ frRaw.source # "number" /\ frRaw.encodable
Untouched == ~frFx.locked /\ ~frFx.called /\ ~frFx.changed

\* C25: a replace request whose body was parsed and that names an unknown
\* id, a directory, a source that is no string or is larger than 1 MB, or
\* a node whose real path is in the template directory or outside the
\* project root never takes the analysis lock and changes nothing, and is
\* answered with the status of the first of these tests that fails, in
\* this order: 404, 400, 400, 400, 403.
C25_RejectedBeforeLock ==
    frFx.parsed =>
        /\ (FrUnknown \/ FrDirectory \/ FrBadSource \/ FrInTemplates
            \/ FrOutside) =>
               /\ frPc \notin {"lock", "replace"}
               /\ Untouched
        /\ frPc = "done" =>
               /\ FrUnknown => frResp.status = 404
               /\ FrDirectory => frResp.status = 400
               /\ (FrKnown /\ ~FrDirectory /\ FrBadSource) =>
                      frResp.status = 400
               /\ (FrKnown /\ ~FrDirectory /\ FrWellFormed /\ ~FrBadSource
                   /\ FrInTemplates) => frResp.status = 400
               /\ (FrKnown /\ ~FrDirectory /\ FrWellFormed /\ ~FrBadSource
                   /\ ~FrInTemplates /\ FrOutside) => frResp.status = 403

\* a request for a node whose file is a link to a file outside the project
\* was answered 403 without the lock
C25_Witness ==
    /\ frPc = "done" /\ frFx.tested
    /\ frReq.id = "l" /\ FrOutside /\ ~FrInTemplates
    /\ frResp.status = 403
    /\ Untouched

FrLengthOf == int_of(frReq.cl)
FrBadLength == frReq.cl.kind # "int" \/ FrLengthOf.n < 0
FrTooLong == ~FrBadLength /\ FrLengthOf.n > MAX_BODY_SIZE

\* C26: a missing, non-numeric or negative Content-Length is answered 400
\* and one above the 10 MB cap 413, in both cases without a byte of the
\* body read and without _execute_replace; a length at or under the cap
\* has the body read, once and under a timeout, whose expiry is answered
\* 408; a body that is not JSON is answered 400; neither runs
\* _execute_replace.
C26_BodyChecks ==
    /\ frFx.reads > 0 => frFx.timed
    /\ (FrBadLength \/ FrTooLong) => frFx.reads = 0 /\ frFx.read = 0
    /\ frPc = "done" =>
          /\ FrBadLength => frResp.status = 400 /\ ~frFx.tested /\ Untouched
          /\ FrTooLong => frResp.status = 413 /\ ~frFx.tested /\ Untouched
          /\ (~FrBadLength /\ ~FrTooLong) =>
                /\ frFx.reads = 1
                /\ (frReq.arrival = "stall"
                    /\ FrLengthOf.n > frReq.body.len) =>
                       frResp.status = 408 /\ ~frFx.tested /\ Untouched
                /\ (frResp.status # 408 /\ frRaw.json = "invalid") =>
                       frResp.status = 400 /\ ~frFx.tested /\ Untouched

\* a body of exactly 10 MB that is not JSON was read and answered 400
C26_Witness ==
    /\ frPc = "done"
    /\ FrLengthOf.n = MAX_BODY_SIZE /\ frFx.read = MAX_BODY_SIZE
    /\ frResp = [status |-> 400, error |-> "Invalid JSON"]

----------------------------------------------------------------------------
(* SpecWatch and SpecLife: start_server, the idle watcher and the callers  *)
(* of server.shutdown().                                                   *)
(* SpecWatch follows the clock, in whole seconds, up to the watcher's      *)
(* decision.  time.sleep ends when its interval has passed: the clock does *)
(* not go past the end of the watcher's sleep before the watcher has       *)
(* looked at it.  Every other step may take any time.                      *)
(* SpecLife follows the threads from that decision, from POST /shutdown    *)
(* and from SIGINT to the end of start_server, and leaves the clock out:   *)
(* the watcher may find the server idle at any of its wake-ups.            *)

IDLE_TIMEOUT == 300
IDLE_CHECK_INTERVAL == 30
MaxTime == 365           \* the clock stops there
MaxLifeRequests == 2     \* requests received
MaxSigints == 1          \* interrupt signals delivered

\* the clock is looked at on each multiple of the check interval and one
\* second later
NextTime(t) ==
    IF t % IDLE_CHECK_INTERVAL = 0
    THEN t + 1
    ELSE ((t \div IDLE_CHECK_INTERVAL) + 1) * IDLE_CHECK_INTERVAL

NoTrigger == [done |-> FALSE, at |-> 0, seen |-> 0]

\* the threads that call server.shutdown(), counted by what started them
\* and by where they are: before the call, inside it, back from it
Origins == {"idle", "endpoint", "sigint"}
NoCallers == [o \in Origins |-> [call |-> 0, wait |-> 0, done |-> 0]]

InitLife ==
    /\ SpliceIdle /\ EditorIdle /\ ServerIdle /\ BatchIdle /\ IdsIdle
    /\ FrontIdle /\ NodeIdle /\ MoreIdle
    /\ lfNow = 0
    /\ lfLast = 0
    /\ lfMain = "init"
    /\ \E m \in BOOLEAN :
         lfSrv = [in_main |-> m, shutdown_request |-> FALSE,
                  is_shut_down |-> FALSE, on_sigint |-> FALSE,
                  closed |-> FALSE]
    /\ lfWatch = [pc |-> "none", wake |-> 0]
    /\ lfCallers = NoCallers
    /\ lfReq = "none"
    /\ lfHist = [started |-> 0, seen |-> 0, reqs |-> 0, sigints |-> 0,
                 acks |-> 0, serves |-> 0, stops |-> 0,
                 trigger |-> NoTrigger]

\* start_server is the last thing the main thread does: when it has
\* returned there the process ends, and the daemon threads with it; called
\* in another thread, it leaves them running
Running == ~(lfMain = "stopped" /\ lfSrv.in_main)

\* the serve loop takes connections
Accepting == lfMain = "serving"

ShutdownThread(callers, origin) == [callers EXCEPT ![origin].call = @ + 1]

\* _setup_handler_state, the server object, _start_idle_watcher
LifeSetup ==
    /\ lfMain = "init"
    /\ lfMain' = "created"
    /\ lfLast' = lfNow
    /\ lfWatch' = [pc |-> "sleep", wake |-> lfNow + IDLE_CHECK_INTERVAL]
    /\ lfHist' = [lfHist EXCEPT !.started = lfNow, !.seen = lfNow]
    /\ UNCHANGED <<lfNow, lfSrv, lfCallers, lfReq>>
    /\ UNCHANGED notLife

\* _install_sigint_handler: only in the main thread
LifeInstall ==
    /\ lfMain = "created"
    /\ lfMain' = "installed"
    /\ lfSrv' = [lfSrv EXCEPT !.on_sigint = lfSrv.in_main]
    /\ UNCHANGED <<lfNow, lfLast, lfWatch, lfCallers, lfReq, lfHist>>
    /\ UNCHANGED notLife

\* serve_forever begins: self.__is_shut_down.clear()
LifeServe ==
    /\ lfMain = "installed"
    /\ lfMain' = "serving"
    /\ lfSrv' = [lfSrv EXCEPT !.is_shut_down = FALSE]
    /\ lfHist' = [lfHist EXCEPT !.serves = @ + 1]
    /\ UNCHANGED <<lfNow, lfLast, lfWatch, lfCallers, lfReq>>
    /\ UNCHANGED notLife

\* the serve loop finds __shutdown_request set
LifePoll ==
    /\ lfMain = "serving"
    /\ lfSrv.shutdown_request
    /\ lfMain' = "leaving"
    /\ UNCHANGED <<lfNow, lfLast, lfSrv, lfWatch, lfCallers, lfReq, lfHist>>
    /\ UNCHANGED notLife

\* serve_forever, finally: the request is cleared, the event is set
LifeServeExit ==
    /\ lfMain = "leaving"
    /\ lfMain' = "returned"
    /\ lfSrv' = [lfSrv EXCEPT !.shutdown_request = FALSE,
                              !.is_shut_down = TRUE]
    /\ UNCHANGED <<lfNow, lfLast, lfWatch, lfCallers, lfReq, lfHist>>
    /\ UNCHANGED notLife

\* start_server, finally: the handler is put back, server_close()
LifeClose ==
    /\ lfMain = "returned"
    /\ lfMain' = "stopped"
    /\ lfSrv' = [lfSrv EXCEPT !.on_sigint = FALSE, !.closed = TRUE]
    /\ lfHist' = [lfHist EXCEPT !.stops = @ + 1]
    /\ UNCHANGED <<lfNow, lfLast, lfWatch, lfCallers, lfReq>>
    /\ UNCHANGED notLife

touch_skipped(now, last) == last

\* _touch
touch(now, last) == now

\* a GET, or a POST that is not an accepted POST /shutdown
LifeRequest ==
    /\ Accepting
    /\ lfHist.reqs < MaxLifeRequests
    /\ lfLast' = touch(lfNow, lfLast)
    /\ lfHist' = [lfHist EXCEPT !.seen = lfNow, !.reqs = @ + 1]
    /\ UNCHANGED <<lfNow, lfMain, lfSrv, lfWatch, lfCallers, lfReq>>
    /\ UNCHANGED notLife

\* POST /shutdown with the token: _touch, then 200 "OK" is written
LifeShutdownAck ==
    /\ Accepting
    /\ lfReq = "none"
    /\ lfHist.reqs < MaxLifeRequests
    /\ lfLast' = touch(lfNow, lfLast)
    /\ lfReq' = "acked"
    /\ lfHist' = [lfHist EXCEPT !.seen = lfNow, !.reqs = @ + 1,
                                !.acks = @ + 1]
    /\ UNCHANGED <<lfNow, lfMain, lfSrv, lfWatch, lfCallers>>
    /\ UNCHANGED notLife

\* _handle_shutdown starts the thread that calls server.shutdown()
LifeShutdownSpawn ==
    /\ Running
    /\ lfReq = "acked"
    /\ lfReq' = "none"
    /\ lfCallers' = ShutdownThread(lfCallers, "endpoint")
    /\ UNCHANGED <<lfNow, lfLast, lfMain, lfSrv, lfWatch, lfHist>>
    /\ UNCHANGED notLife

on_sigint_inline(main, callers) ==
    [main |-> "in_shutdown", callers |-> callers]

\* _on_sigint runs in the main thread and starts a thread for the call
on_sigint(main, callers) ==
    [main |-> main, callers |-> ShutdownThread(callers, "sigint")]

\* SIGINT while the handler of start_server is installed
LifeSigint ==
    /\ Running
    /\ lfSrv.on_sigint
    /\ lfHist.sigints < MaxSigints
    /\ LET r == on_sigint(lfMain, lfCallers)
       IN  lfMain' = r.main /\ lfCallers' = r.callers
    /\ lfHist' = [lfHist EXCEPT !.sigints = @ + 1]
    /\ UNCHANGED <<lfNow, lfLast, lfSrv, lfWatch, lfReq>>
    /\ UNCHANGED notLife

\* _idle_watcher after time.sleep(IDLE_CHECK_INTERVAL), with the elapsed
\* time it computes
idle_watcher(elapsed) ==
    /\ Running
    /\ lfWatch.pc = "sleep"
    /\ IF elapsed >= IDLE_TIMEOUT
       THEN /\ lfWatch' = [lfWatch EXCEPT !.pc = "shutdown"]
            /\ lfCallers' = ShutdownThread(lfCallers, "idle")
            /\ lfHist' = [lfHist EXCEPT !.trigger =
                             [done |-> TRUE, at |-> lfNow,
                              seen |-> lfHist.seen]]
       ELSE /\ lfWatch' = [lfWatch EXCEPT
                             !.wake = lfNow + IDLE_CHECK_INTERVAL]
            /\ UNCHANGED <<lfCallers, lfHist>>
    /\ UNCHANGED <<lfNow, lfLast, lfMain, lfSrv, lfReq>>
    /\ UNCHANGED notLife

\* the watcher's sleep ends
LifeWake ==
    /\ lfNow = lfWatch.wake
    /\ idle_watcher(lfNow - lfLast)

\* the same with the clock left out: any elapsed time on either side of
\* the comparison
LifeWakeAnyTime ==
    /\ lfWatch.pc = "sleep"
    /\ \E elapsed \in {IDLE_TIMEOUT - 1, IDLE_TIMEOUT} :
         idle_watcher(elapsed)

\* shutdown(): self.__shutdown_request = True
LifeCallerSet(o) ==
    /\ Running
    /\ lfCallers[o].call > 0
    /\ lfCallers' = [lfCallers EXCEPT ![o].call = @ - 1, ![o].wait = @ + 1]
    /\ lfSrv' = [lfSrv EXCEPT !.shutdown_request = TRUE]
    /\ UNCHANGED <<lfNow, lfLast, lfMain, lfWatch, lfReq, lfHist>>
    /\ UNCHANGED notLife

\* shutdown(): self.__is_shut_down.wait() returns
LifeCallerReturn(o) ==
    /\ Running
    /\ lfCallers[o].wait > 0
    /\ lfSrv.is_shut_down
    /\ lfCallers' = [lfCallers EXCEPT ![o].wait = @ - 1, ![o].done = @ + 1]
    /\ lfWatch' = IF o = "idle"
                  THEN [lfWatch EXCEPT !.pc = "done"]
                  ELSE lfWatch
    /\ UNCHANGED <<lfNow, lfLast, lfMain, lfSrv, lfReq, lfHist>>
    /\ UNCHANGED notLife

\* time passes, up to the end of the watcher's sleep
LifeTick ==
    /\ Running
    /\ LET sleeping == lfWatch.pc = "sleep"
           next == IF sleeping /\ lfWatch.wake < NextTime(lfNow)
                   THEN lfWatch.wake
                   ELSE NextTime(lfNow)
       IN  /\ ~(sleeping /\ lfNow = lfWatch.wake)
           /\ next <= MaxTime
           /\ lfNow' = next
    /\ UNCHANGED <<lfLast, lfMain, lfSrv, lfWatch, lfCallers, lfReq, lfHist>>
    /\ UNCHANGED notLife

LifeCallerStep == \E o \in DOMAIN lfCallers : LifeCallerSet(o)

LifeCallerDone == \E o \in DOMAIN lfCallers : LifeCallerReturn(o)

NextWatch ==
    \/ LifeSetup
    \/ LifeInstall
    \/ LifeServe
    \/ LifeRequest
    \/ LifeShutdownAck
    \/ LifeWake
    \/ LifeTick

SpecWatch == InitLife /\ [][NextWatch]_vars

NextLife ==
    \/ LifeSetup
    \/ LifeInstall
    \/ LifeServe
    \/ LifePoll
    \/ LifeServeExit
    \/ LifeClose
    \/ LifeShutdownAck
    \/ LifeShutdownSpawn
    \/ LifeSigint
    \/ LifeWakeAnyTime
    \/ LifeCallerStep
    \/ LifeCallerDone

SpecLife == InitLife /\ [][NextLife]_vars

\* every thread that can take a step takes it in the end
LifeFairness ==
    /\ WF_vars(LifeSetup)
    /\ WF_vars(LifeInstall)
    /\ WF_vars(LifeServe)
    /\ WF_vars(LifePoll)
    /\ WF_vars(LifeServeExit)
    /\ WF_vars(LifeClose)
    /\ WF_vars(LifeShutdownSpawn)
    /\ WF_vars(LifeCallerStep)

SpecLifeFair == InitLife /\ [][NextLife]_vars /\ LifeFairness

(* Claims about the idle watcher *)

\* the watcher has not decided to shut down yet
Watching == Running /\ lfWatch.pc = "sleep"

Phase ==
    IF lfSrv.closed THEN "stopped"
    ELSE IF lfHist.serves > 0 THEN "serving"
    ELSE "starting"

Stopped == Phase = "stopped"

EndpointThreads ==
    lfCallers["endpoint"].call + lfCallers["endpoint"].wait
      + lfCallers["endpoint"].done

InShutdown == {o \in Origins : lfCallers[o].wait > 0}

\* C28: the server goes from starting to serving and from serving to
\* stopped and makes no other move, and once it is stopped it stays so:
\* start_server does nothing more and no request is received;
\* server_close() runs at most once; a thread that calls server.shutdown()
\* for POST /shutdown is started only after the 200 of its request was
\* written; and once the idle watcher has decided to shut down, or a POST
\* /shutdown was acknowledged, or a SIGINT was handled, the server is stopped
\* in the end, however many threads are inside server.shutdown().
C28_Lifetime ==
    /\ [][Phase' # Phase =>
            <<Phase, Phase'>> \in {<<"starting", "serving">>,
                                   <<"serving", "stopped">>}]_vars
    /\ [][Stopped => /\ Phase' = "stopped"
                      /\ lfMain' = lfMain
                      /\ lfHist'.reqs = lfHist.reqs]_vars
    /\ [](lfHist.stops <= 1)
    /\ [](EndpointThreads + (IF lfReq = "acked" THEN 1 ELSE 0) = lfHist.acks)
    /\ (lfHist.trigger.done ~> Stopped)
    /\ (lfHist.acks > 0 ~> Stopped)
    /\ (lfHist.sigints > 0 ~> Stopped)

\* stopped, once, with the watcher, a POST /shutdown thread and a SIGINT
\* thread all inside server.shutdown() at the same time
C28_Witness ==
    /\ Stopped
    /\ lfHist.stops = 1
    /\ InShutdown = {"idle", "endpoint", "sigint"}

----------------------------------------------------------------------------
(* SpecNode: what analysis does to one node.  Either _analyze_node calls   *)
(* analyze_single_node on nodes of a tree that have no summary yet, one    *)
(* call after the other, or analyze() runs once over the tree.             *)

MaxNodeCalls == 2        \* calls of analyze_single_node

\* a directory with nothing in it
LoneDir ==
    Obj(DirId, 0) :> [Node(DirId, "directory", 1, 0, <<>>, <<>>)
                         EXCEPT !.start_line = 0, !.line_count = 0]

\* a cache file of this model that holds an entry under the key of k, a
\* function below MIN_LINES_FOR_AI
CacheWithSmall ==
    [model |-> Model,
     entries |-> cache_key(BatchTree(MIN_LINES_FOR_AI - 1)[Obj(SevereId, 0)])
                   :> [summary |-> Summ("AI summary", "", 0, <<>>),
                       pseudocode |-> "pseudocode"]]

\* no run of analyze(): no tree, no worker at work
NoBatch ==
    /\ tree = <<>> /\ workers = 0 /\ cache = EmptyCache("")
    /\ bCacheFile = EmptyCache("") /\ bpc = "idle" /\ pending = <<>>
    /\ job = [w \in 1..MaxWorkers |-> NoJob] /\ futures = <<>>
    /\ bLog = <<>> /\ bTmpFile = NoTmp
    /\ bSaveHist = [prev |-> bCacheFile, outcome |-> "none"]
    /\ abandoned = <<>> /\ bRun = 0 /\ bPrevTree = NoPrev /\ bDone = <<>>

InitSingle ==
    /\ SpliceIdle /\ EditorIdle /\ NoBatch /\ AuxIdle
    /\ heap \in {BatchTree(MIN_LINES_FOR_AI - 1), LoneDir}
    /\ node_lookup = <<>>
    /\ analyze_lock = 0
    /\ cacheFile = CacheWithSmall
    /\ ollama \in BOOLEAN
    /\ thr = <<>>
    /\ lastResp = <<>>
    /\ reqCount = 0 /\ last_request_time = 0
    /\ shutdownStarted = FALSE
    /\ aiCalls = [o \in DOMAIN heap |-> 0]
    /\ nodeWrites = 0 /\ replaces = 0

InitNode == InitSingle \/ InitBatch

\* _analyze_node on a node without a summary: analyze_single_node, and
\* "Analysis failed" for what it raises
NodeAnalyze(o, outcome, saved) ==
    /\ Len(anLog) < MaxNodeCalls
    /\ heap[o].summary = None
    /\ LET r == analyze_single_node(heap, heap[o], outcome, saved)
           after == IF r.raised
                    THEN [r.node EXCEPT
                            !.summary = Summ("Analysis failed", "", 0, <<>>)]
                    ELSE r.node
       IN  /\ heap' = [heap EXCEPT ![o] = after]
           /\ cacheFile' = r.cache
           /\ aiCalls' = [aiCalls EXCEPT ![o] = IF r.called THEN @ + 1 ELSE @]
           /\ anLog' = Append(anLog,
                  [node |-> o, heap |-> heap, after |-> after,
                   called |-> r.called, loaded |-> r.loaded,
                   cache |-> cacheFile, cache_after |-> r.cache])
    /\ UNCHANGED <<node_lookup, analyze_lock, ollama, thr, lastResp, reqCount,
                   last_request_time, shutdownStarted, nodeWrites, replaces>>
    /\ UNCHANGED notNode

NodeStep ==
    \E o \in DOMAIN heap, outcome \in AiOutcomes, saved \in BOOLEAN :
        NodeAnalyze(o, outcome, saved)

NextNode ==
    \/ NodeStep
    \/ BatchStart
    \/ BatchNoAi
    \/ BatchScore
    \/ BatchRollup
    \/ \E w \in 1..MaxWorkers : BatchTake(w)
    \/ \E w \in 1..MaxWorkers : BatchSmall(w)
    \/ \E w \in 1..MaxWorkers : BatchLookup(w)
    \/ \E w \in 1..MaxWorkers, outcome \in BatchOutcomes :
         BatchSummarize(w, outcome)
    \/ \E w \in 1..MaxWorkers : BatchStore(w)
    \/ \E w \in 1..MaxWorkers : BatchExcept(w)
    \/ BatchDispatchEnd
    \/ BatchDirectories
    \/ BatchSaveCreate
    \/ BatchSaveWrite
    \/ BatchSaveFlush
    \/ BatchSaveReplace
    \/ \E unlinked \in BOOLEAN : BatchSaveFails(unlinked)
    \/ \E o \in DOMAIN abandoned : BatchLateCompletion(o)

SpecNode == InitNode /\ [][NextNode]_vars

(* Claims about the min-lines guard and about directories *)

SmallText(n) == Summ("Small", n.node_type, n.line_count, <<>>)

Unavailable == Summ("AI unavailable", "", 0, <<>>)

Short(n) == n.line_count < MIN_LINES_FOR_AI

\* the node a call of analyze_single_node was made on, as it was
Analyzed(e) == e.heap[e.node]

\* a call that went no further than the node: no summarizer call, the cache
\* file neither loaded nor written
Skipped(e) == ~e.called /\ ~e.loaded /\ e.cache_after = e.cache

\* the run of analyze() went no further than the node o: no summarizer
\* call, no look into the cache, no entry stored
BatchSkipped(o) ==
    /\ \A k \in DOMAIN bLog : ~(bLog[k].ev = "call" /\ bLog[k].node = o)
    /\ \A w \in DOMAIN job :
         job[w].node = o => job[w].pc \notin {"lookup", "call", "store"}
    /\ cache_key(tree[o]) \notin DOMAIN cache.entries

C30_DirectorySynthesized ==
    \A i \in DOMAIN anLog :
        LET n == Analyzed(anLog[i])
            made == summarize_directory(anLog[i].heap, n)
        IN  n.node_type = "directory" =>
              /\ ~anLog[i].called
              /\ anLog[i].after.summary = made.summary
              /\ anLog[i].after.quality = made.quality

----------------------------------------------------------------------------
(* SpecCloud: cloud_chat(prompt, endpoint, api_key, model).  The endpoint  *)
(* is tested by _validate_endpoint, which resolves the host name of an     *)
(* http endpoint; urlopen then resolves the name again for its connection. *)
(* The resolver and the remote server are the environment.                 *)

MaxAddrs == 2       \* addresses one getaddrinfo call gives

\* an endpoint URL: its scheme as written and its host
Schemes == {"http", "HTTP", "https", "ftp", ""}
Hostnames == {"", "127.0.0.1", "localhost", "api.example.com"}
Endpoints == [scheme : Schemes, hostname : Hostnames]

\* urllib.parse.urlparse: the scheme comes back in lower case
lower(text) == IF text = "HTTP" THEN "http" ELSE text
urlparse(endpoint) ==
    [scheme |-> lower(endpoint.scheme), hostname |-> endpoint.hostname]

Addresses == {"127.0.0.1", "::1", "93.184.216.34"}
Loopback == {"127.0.0.1", "::1"}

\* socket.getaddrinfo(hostname, None): gaierror or a list of addresses; an
\* address literal resolves to itself, a name to what the resolver says
\* at the time of the call
GaiError == [error |-> TRUE, addrs |-> <<>>]
Resolved(addrs) == [error |-> FALSE, addrs |-> addrs]
NotResolved == [error |-> FALSE, addrs |-> <<>>]
getaddrinfo(hostname) ==
    IF hostname \in Addresses THEN {Resolved(<<hostname>>)}
    ELSE {GaiError}
         \cup {Resolved(a) : a \in SeqsUpTo(Addresses, MaxAddrs) \ {<<>>}}

\* ipaddress.ip_address(resolved_ip).is_loopback
is_loopback_or_not(addr) == addr \in Addresses
is_loopback(addr) == addr \in Loopback

ErrScheme == "ValueError: Invalid URL scheme: must be http or https"
ErrNoHost == "ValueError: Invalid URL: missing hostname"
ErrNotLoopback ==
    "ValueError: HTTP endpoints are only allowed for loopback addresses"
ErrNoResolve == "ValueError: Cannot resolve endpoint hostname"
ValueErrors == {ErrScheme, ErrNoHost, ErrNotLoopback, ErrNoResolve}
Valid == "valid"

\* _validate_endpoint needs the resolver for an http URL with a host only
needs_resolver(endpoint) ==
    /\ urlparse(endpoint).scheme = "http"
    /\ urlparse(endpoint).hostname # ""

\* _validate_endpoint(endpoint), with what getaddrinfo gave if it is called
validate_endpoint(endpoint, addr_info) ==
    LET parsed == urlparse(endpoint)
    IN  IF parsed.scheme \notin {"http", "https"} THEN ErrScheme
        ELSE IF parsed.hostname = "" THEN ErrNoHost
        ELSE IF parsed.scheme = "http"
        THEN IF addr_info.error THEN ErrNoResolve
             ELSE IF ~is_loopback(addr_info.addrs[1]) THEN ErrNotLoopback
             ELSE Valid
        ELSE Valid

\* what urlopen and the reading of the reply can end with
UrlopenOutcomes ==
    {"content", "http401", "http429", "http5xx", "http4xx", "too_big",
     "bad_json", "bad_shape", "non_text", "refused"}
\* cloud_chat after urlopen: the content, or a RuntimeError
cloud_result(outcome) ==
    CASE outcome = "content" -> "content"
      [] outcome = "http401" -> "RuntimeError: Unauthorized"
      [] outcome = "http429" -> "RuntimeError: Rate limited"
      [] outcome = "http5xx" -> "RuntimeError: Server error"
      [] outcome = "http4xx" -> "RuntimeError: HTTP error"
      [] outcome = "too_big" -> "RuntimeError: response exceeded size limit"
      [] outcome = "bad_json" -> "RuntimeError: Invalid response from API"
      [] outcome = "bad_shape" -> "RuntimeError: Unexpected response format"
      [] outcome = "non_text" -> "RuntimeError: non-text response"
      [] OTHER -> "RuntimeError: Connection failed"

NoCall == <<>>
InitCloud ==
    /\ OldIdle /\ LockIdle /\ RangeIdle /\ BusyIdle
    /\ clPc = "idle"
    /\ clCall = NoCall

\* cloud_chat is called
CloudCall(endpoint) ==
    /\ clPc \in {"idle", "done"}
    /\ clPc' = "validate"
    /\ clCall' = [endpoint |-> endpoint, resolved |-> NotResolved,
                  sent |-> FALSE, sent_to |-> "", result |-> ""]
    /\ UNCHANGED notCloud

\* endpoint = _validate_endpoint(endpoint): a ValueError ends the call
CloudValidate(addr_info) ==
    /\ clPc = "validate"
    /\ IF needs_resolver(clCall.endpoint)
       THEN addr_info \in getaddrinfo(urlparse(clCall.endpoint).hostname)
       ELSE addr_info = NotResolved
    /\ LET v == validate_endpoint(clCall.endpoint, addr_info)
       IN  /\ clPc' = IF v = Valid THEN "request" ELSE "done"
           /\ clCall' = [clCall EXCEPT !.resolved = addr_info,
                                       !.result = IF v = Valid THEN "" ELSE v]
    /\ UNCHANGED notCloud

\* urllib.request.urlopen(req): the host is resolved again and the request
\* goes to an address that accepts the connection, if any does; then the
\* reply is read and parsed
CloudRequest(addr_info, addr, outcome) ==
    /\ clPc = "request"
    /\ addr_info \in getaddrinfo(urlparse(clCall.endpoint).hostname)
    /\ IF addr_info.error \/ outcome = "refused"
       THEN /\ addr = "" /\ outcome = "refused"
            /\ clCall' = [clCall EXCEPT !.result = cloud_result(outcome)]
       ELSE /\ \E k \in DOMAIN addr_info.addrs : addr = addr_info.addrs[k]
            /\ clCall' = [clCall EXCEPT !.sent = TRUE, !.sent_to = addr,
                                        !.result = cloud_result(outcome)]
    /\ clPc' = "done"
    /\ UNCHANGED notCloud

NextCloud ==
    \/ \E endpoint \in Endpoints : CloudCall(endpoint)
    \/ \E addr_info \in {NotResolved, GaiError}
                        \cup {Resolved(a) : a \in SeqsUpTo(Addresses, MaxAddrs)} :
           CloudValidate(addr_info)
    \/ \E addr_info \in {GaiError}
                        \cup {Resolved(a) : a \in SeqsUpTo(Addresses, MaxAddrs)},
          addr \in Addresses \cup {""}, outcome \in UrlopenOutcomes :
           CloudRequest(addr_info, addr, outcome)

SpecCloud == InitCloud /\ [][NextCloud]_vars

----------------------------------------------------------------------------
(* Claims about cloud_chat *)

\* the endpoint of the call is one the test has to refuse: a scheme other
\* than http and https, no host, or http with a name that did not resolve
\* or whose first address is not a loopback address
Refusable ==
    LET parsed == urlparse(clCall.endpoint)
    IN  \/ parsed.scheme \notin {"http", "https"}
        \/ parsed.hostname = ""
        \/ /\ parsed.scheme = "http" /\ clPc # "validate"
           /\ \/ clCall.resolved.error
              \/ clCall.resolved.addrs[1] \notin Loopback

\* C33: a request to an http endpoint is sent only when the name resolved
\* to a loopback address in _validate_endpoint; a call whose endpoint has
\* another scheme than http or https, no host, or is http and resolved
\* elsewhere or not at all ends with a ValueError and sends nothing.
C33_HttpOnlyLoopback ==
    clCall # NoCall =>
      /\ (clCall.sent /\ urlparse(clCall.endpoint).scheme = "http") =>
            /\ ~clCall.resolved.error
            /\ clCall.resolved.addrs # <<>>
            /\ clCall.resolved.addrs[1] \in Loopback
      /\ Refusable =>
            /\ clPc # "request"
            /\ ~clCall.sent
            /\ clPc = "done" => clCall.result \in ValueErrors

\* a call to an http endpoint written in capitals, whose name resolved to
\* ::1 first, was sent and answered
C33_Witness ==
    /\ clPc = "done"
    /\ clCall.endpoint.scheme = "HTTP"
    /\ clCall.endpoint.hostname = "localhost"
    /\ clCall.resolved.addrs # <<>> /\ clCall.resolved.addrs[1] = "::1"
    /\ clCall.sent /\ clCall.result = "content"

----------------------------------------------------------------------------
(* SpecLock: the AI phase of one batch run, _dispatch_work running _do_one *)
(* on the selected nodes, with cache_lock as the code takes and leaves it. *)
(* Two selected nodes may have one cache key (two methods of one name and  *)
(* one text in one file).                                                  *)

MaxLockNodes == 2   \* selected nodes

\* the nodes that can be selected: two methods a of one text (in two
\* classes of the file), a method b, and a method below MIN_LINES_FOR_AI
LockNodeKinds ==
    { Node("a", "method", 1, 3, Src3, <<>>),
      Node("a", "method", 5, 7, Src3, <<>>),
      Node("b", "method", 1, 3, Src3, <<>>),
      Node("a", "method", 1, 2, SrcOf(2), <<>>) }

LockIdleJob == [pc |-> "idle", node |-> 0, result |-> ""]
NoAccess == [worker |-> 0, holder |-> 0, op |-> "none"]

InitLock ==
    /\ OldIdle /\ CloudIdle /\ RangeIdle /\ BusyIdle
    /\ cache_lock = 0
    /\ lkWorkers \in {1, MaxWorkers}
    /\ lkTree \in [1..MaxLockNodes -> LockNodeKinds]
    /\ lkPending = [i \in 1..MaxLockNodes |-> i]
    /\ lkJob = [w \in 1..MaxWorkers |-> LockIdleJob]
    /\ lkEntries \in {<<>>, (cache_key(Node("b", "method", 1, 3, Src3, <<>>))
                              :> Entry("AI summary"))}
    /\ lkHist = [calls |-> <<>>, done |-> [i \in 1..MaxLockNodes |-> ""],
                 access |-> NoAccess]

\* the next node is taken up: by the loop of _dispatch_work (workers == 1)
\* or by a free thread of the pool
LockTake(w) ==
    /\ w \in 1..lkWorkers
    /\ lkJob[w].pc = "idle"
    /\ lkPending # <<>>
    /\ lkJob' = [lkJob EXCEPT ![w] = [LockIdleJob EXCEPT !.pc = "do_one",
                                                         !.node = Head(lkPending)]]
    /\ lkPending' = Tail(lkPending)
    /\ UNCHANGED <<cache_lock, lkWorkers, lkTree, lkEntries, lkHist>>
    /\ UNCHANGED notLock

\* _do_one ends for worker w
LockFinish(w, kind) ==
    /\ lkJob' = [lkJob EXCEPT ![w] = LockIdleJob]
    /\ lkHist' = [lkHist EXCEPT !.done[lkJob[w].node] = kind]

\* _do_one: if node.line_count < MIN_LINES_FOR_AI; key = _cache_key(node)
LockSmall(w) ==
    /\ lkJob[w].pc = "do_one"
    /\ LET i == lkJob[w].node
       IN  IF below_min_lines(lkTree[i])
           THEN /\ lkTree' = [lkTree EXCEPT ![i].summary =
                                Summ("Small", lkTree[i].node_type,
                                     lkTree[i].line_count, <<>>)]
                /\ LockFinish(w, "small")
           ELSE /\ lkJob' = [lkJob EXCEPT ![w].pc = "enter_check"]
                /\ UNCHANGED <<lkTree, lkHist>>
    /\ UNCHANGED <<cache_lock, lkWorkers, lkPending, lkEntries>>
    /\ UNCHANGED notLock

\* threading.Lock: acquire returns when no thread holds the lock
lock_never_waits == TRUE
lock_free == cache_lock = 0

\* with cache_lock:   (both blocks of _do_one)
LockAcquire(w) ==
    /\ lkJob[w].pc \in {"enter_check", "enter_store"}
    /\ lock_free
    /\ cache_lock' = w
    /\ lkJob' = [lkJob EXCEPT ![w].pc = IF @ = "enter_check" THEN "check"
                                        ELSE "store"]
    /\ UNCHANGED <<lkWorkers, lkTree, lkPending, lkEntries, lkHist>>
    /\ UNCHANGED notLock

\* if key in cache["entries"]: the node gets the entry, return
LockCheck(w) ==
    /\ lkJob[w].pc = "check"
    /\ LET i == lkJob[w].node
           key == cache_key(lkTree[i])
       IN  IF key \in DOMAIN lkEntries
           THEN /\ lkTree' = [lkTree EXCEPT
                                ![i].summary = lkEntries[key].summary,
                                ![i].pseudocode = lkEntries[key].pseudocode]
                /\ lkJob' = [lkJob EXCEPT ![w].pc = "leave_hit"]
           ELSE /\ lkJob' = [lkJob EXCEPT ![w].pc = "leave_miss"]
                /\ UNCHANGED lkTree
    /\ lkHist' = [lkHist EXCEPT !.access = [worker |-> w, holder |-> cache_lock,
                                             op |-> "read"]]
    /\ UNCHANGED <<cache_lock, lkWorkers, lkPending, lkEntries>>
    /\ UNCHANGED notLock

\* the with block is left: by the return of a hit, at its end after a miss,
\* at its end after the store
LockLeave(w) ==
    /\ lkJob[w].pc \in {"leave_hit", "leave_miss", "leave_store"}
    /\ cache_lock' = 0
    /\ IF lkJob[w].pc = "leave_miss"
       THEN /\ lkJob' = [lkJob EXCEPT ![w].pc = "call"]
            /\ UNCHANGED lkHist
       ELSE LockFinish(w, IF lkJob[w].pc = "leave_hit" THEN "hit" ELSE "success")
    /\ UNCHANGED <<lkWorkers, lkTree, lkPending, lkEntries>>
    /\ UNCHANGED notLock

\* result = _summarize_with_ai(node, model) returns: a tuple, None after
\* the timeout, or an exception that except Exception turns into the
\* failure summary
LockCall(w, outcome) ==
    /\ lkJob[w].pc = "call"
    /\ LET i == lkJob[w].node
           key == cache_key(lkTree[i])
           calls == IF key \in DOMAIN lkHist.calls THEN lkHist.calls[key] ELSE 0
           counted == [lkHist EXCEPT !.calls = (key :> calls + 1) @@ @]
       IN  CASE outcome \in {"ok", "garbage"} ->
                  /\ lkJob' = [lkJob EXCEPT
                                 ![w].pc = "enter_store",
                                 ![w].result = IF outcome = "ok" THEN "AI summary"
                                               ELSE "Could not generate summary"]
                  /\ lkHist' = counted
                  /\ UNCHANGED lkTree
             [] outcome = "timeout" ->
                  /\ lkTree' = [lkTree EXCEPT ![i].summary =
                                  Summ("Summary timed out", "", 0, <<>>)]
                  /\ lkJob' = [lkJob EXCEPT ![w] = LockIdleJob]
                  /\ lkHist' = [counted EXCEPT !.done[i] = "timeout"]
             [] OTHER ->
                  /\ lkTree' = [lkTree EXCEPT ![i].summary =
                                  Summ("Summary generation failed", "", 0, <<>>)]
                  /\ lkJob' = [lkJob EXCEPT ![w] = LockIdleJob]
                  /\ lkHist' = [counted EXCEPT !.done[i] = "failure"]
    /\ UNCHANGED <<cache_lock, lkWorkers, lkPending, lkEntries>>
    /\ UNCHANGED notLock

\* node.summary = summary; cache["entries"][key] = {...}
LockStore(w) ==
    /\ lkJob[w].pc = "store"
    /\ LET i == lkJob[w].node
           key == cache_key(lkTree[i])
       IN  /\ lkTree' = [lkTree EXCEPT
                           ![i].summary = Entry(lkJob[w].result).summary,
                           ![i].pseudocode = Entry(lkJob[w].result).pseudocode]
           /\ lkEntries' = (key :> Entry(lkJob[w].result)) @@ lkEntries
    /\ lkJob' = [lkJob EXCEPT ![w].pc = "leave_store"]
    /\ lkHist' = [lkHist EXCEPT !.access = [worker |-> w, holder |-> cache_lock,
                                             op |-> "write"]]
    /\ UNCHANGED <<cache_lock, lkWorkers, lkPending>>
    /\ UNCHANGED notLock

NextLock ==
    \/ \E w \in 1..MaxWorkers : LockTake(w)
    \/ \E w \in 1..MaxWorkers : LockSmall(w)
    \/ \E w \in 1..MaxWorkers : LockAcquire(w)
    \/ \E w \in 1..MaxWorkers : LockCheck(w)
    \/ \E w \in 1..MaxWorkers : LockLeave(w)
    \/ \E w \in 1..MaxWorkers, outcome \in AiOutcomes \ {"crash"} :
         LockCall(w, outcome)
    \/ \E w \in 1..MaxWorkers : LockStore(w)

SpecLock == InitLock /\ [][NextLock]_vars

----------------------------------------------------------------------------
(* Claims about the workers and the cache *)

\* worker w is in one of the two with blocks of _do_one
InCheck(w) == lkJob[w].pc \in {"check", "leave_hit", "leave_miss"}
InStore(w) == lkJob[w].pc \in {"store", "leave_store"}
InBlock(w) == InCheck(w) \/ InStore(w)

\* C34: every read and every write of cache["entries"] is made by a worker
\* that holds cache_lock, no two workers are in a cache check or a cache
\* update at one time, and a worker in the AI call does not hold the lock.
C34_CacheUnderLock ==
    /\ lkHist.access.holder = lkHist.access.worker
    /\ \A w1 \in 1..MaxWorkers, w2 \in 1..MaxWorkers :
           InBlock(w1) /\ InBlock(w2) => w1 = w2
    /\ \A w \in 1..MaxWorkers :
           /\ InBlock(w) => cache_lock = w
           /\ lkJob[w].pc = "call" => cache_lock # w

\* one worker has written the entry of its node and still holds the lock
\* while another worker is in the AI call
C34_Witness ==
    \E w1 \in 1..MaxWorkers, w2 \in 1..MaxWorkers :
        /\ lkJob[w1].pc = "leave_store" /\ cache_lock = w1
        /\ lkHist.access = [worker |-> w1, holder |-> w1, op |-> "write"]
        /\ lkJob[w2].pc = "call"

\* C37: in one run the summarizer is called at most once for each cache
\* key, and of two selected nodes with one key the one taken up second gets
\* its summary from the cache.
C37_OncePerKey ==
    /\ \A key \in DOMAIN lkHist.calls : lkHist.calls[key] <= 1
    /\ \A i \in 1..MaxLockNodes, j \in 1..MaxLockNodes :
           ( /\ i < j
             /\ cache_key(lkTree[i]) = cache_key(lkTree[j])
             /\ ~below_min_lines(lkTree[i])
             /\ lkHist.done[i] # "" /\ lkHist.done[j] # "" )
           => lkHist.done[j] = "hit"

----------------------------------------------------------------------------
(* Claims about the summarizer calls of a batch run (SpecBatch) *)

\* the summarizer calls that have not returned: the workers inside
\* _summarize_with_ai and the calls left running by a timeout
InFlight ==
    Cardinality({w \in 1..MaxWorkers : job[w].pc = "call"})
    + Cardinality({o \in DOMAIN abandoned : abandoned[o] = "running"})

\* C38: during a run with N workers at most N summarizer calls are under
\* way at any moment, the calls whose caller has timed out and which have
\* not returned included.
C38_InFlightBounded == InFlight <= workers

----------------------------------------------------------------------------
(* Claims about the tree after a replace (SpecServer) *)

\* C36: a node whose source is changed by a replace (the replaced node,
\* the file node that owns it) has no summary and no pseudocode afterwards,
\* so that its next analyze request analyzes it again.
C36_ChangedSourceClearsAnalysis ==
    [][\A o \in DOMAIN heap \cap DOMAIN heap' :
          heap'[o].source # heap[o].source =>
             /\ heap'[o].summary = None
             /\ heap'[o].pseudocode = "None"
    ]_vars

----------------------------------------------------------------------------
(* SpecRange: POST /api/replace requests on the two functions g and h of   *)
(* one file.  The file is the sequence of its lines, each with the         *)
(* function it belongs to; a node carries the start_line and end_line the  *)
(* last parse or update gave it.                                           *)

MaxRangeReplaces == 2    \* successful replaces
MaxRangeLines == 3       \* lines of a new source

RangeNames == {"g", "h"}
RgFileObj == <<"file", 0>>

\* parse_file on the lines: a function for every name that has lines, from
\* its first line to the end of that run of lines
FirstLine(lines, name) ==
    CHOOSE k \in DOMAIN lines :
        lines[k] = name /\ \A j \in 1..(k - 1) : lines[j] # name
RECURSIVE RunEnd(_, _)
RunEnd(lines, k) ==
    IF k < Len(lines) /\ lines[k + 1] = lines[k] THEN RunEnd(lines, k + 1)
    ELSE k
Found(lines) == {name \in RangeNames : \E k \in DOMAIN lines : lines[k] = name}
range_parse(lines, path, gen) ==
    [o \in {<<name, gen>> : name \in Found(lines)} |->
        [name |-> o[1], node_type |-> "function", filepath |-> path,
         start_line |-> FirstLine(lines, o[1]),
         end_line |-> RunEnd(lines, FirstLine(lines, o[1]))]]

\* assign_node_ids: one id for each name under the file
range_ids(h, gen) ==
    [name \in {o[1] : o \in {x \in DOMAIN h : x[2] = gen /\ x # RgFileObj}}
        |-> <<name, gen>>]

RgIdle == [pc |-> "idle", node |-> RgFileObj, name |-> "", n |-> 0,
           success |-> FALSE]
NoWrite == [name |-> "", written |-> <<0, 0>>, actual |-> <<0, 0>>]

\* the tree as parse_directory makes it (the file node has the path
\* relative to the root, the nodes under it the absolute path) or with one
\* path in all nodes
InitRange ==
    /\ OldIdle /\ CloudIdle /\ LockIdle /\ BusyIdle
    /\ rgFile = <<"g", "g", "h", "h">>
    /\ \E filePath \in {RelPath("f.py"), AbsPath("f.py")} :
         /\ rgHeap = (RgFileObj :> [name |-> "f.py", node_type |-> "file",
                                    filepath |-> filePath, start_line |-> 1,
                                    end_line |-> 4])
                     @@ range_parse(rgFile, AbsPath("f.py"), 0)
         /\ rgLookup = range_ids(rgHeap, 0)
    /\ rgLock = 0
    /\ rgThr = [t \in Threads |-> RgIdle]
    /\ rgHist = [last |-> NoWrite, replaces |-> 0]

\* _execute_replace: node = _Handler.node_lookup[node_id], before the lock
RangeLookup(t, name, n) ==
    /\ rgThr[t].pc = "idle"
    /\ rgHist.replaces < MaxRangeReplaces
    /\ name \in DOMAIN rgLookup
    /\ rgThr' = [rgThr EXCEPT ![t] = [RgIdle EXCEPT !.pc = "wait",
                                                    !.node = rgLookup[name],
                                                    !.name = name, !.n = n]]
    /\ UNCHANGED <<rgFile, rgHeap, rgLookup, rgLock, rgHist>>
    /\ UNCHANGED notRange

\* with _Handler.analyze_lock:
RangeLock(t) ==
    /\ rgThr[t].pc = "wait"
    /\ rgLock = 0
    /\ rgLock' = t
    /\ rgThr' = [rgThr EXCEPT ![t].pc = "write"]
    /\ UNCHANGED <<rgFile, rgHeap, rgLookup, rgHist>>
    /\ UNCHANGED notRange

\* the lines of name in the file: from its first to its last
ActualRange(lines, name) ==
    IF name \in Found(lines)
    THEN <<FirstLine(lines, name),
           CHOOSE k \in DOMAIN lines :
               lines[k] = name /\ \A j \in (k + 1)..Len(lines) : lines[j] # name>>
    ELSE <<0, 0>>

\* the range replace_block_source is given
range_given(node) == <<node.start_line, node.end_line>>

\* replace_block_source(abs_path, node.start_line, node.end_line,
\* new_source) and, if it succeeds, _update_node_after_replace
RangeWrite(t) ==
    /\ rgThr[t].pc = "write"
    /\ LET node == rgHeap[rgThr[t].node]
           s == range_given(node)[1]
           e == range_given(node)[2]
           n == rgThr[t].n
           valid == 1 <= s /\ s <= e /\ e <= Len(rgFile)
       IN  IF valid
           THEN /\ rgFile' = SubSeq(rgFile, 1, s - 1)
                             \o [k \in 1..n |-> rgThr[t].name]
                             \o SubSeq(rgFile, e + 1, Len(rgFile))
                /\ rgHeap' = [rgHeap EXCEPT
                                ![rgThr[t].node].end_line = node.start_line + n - 1]
                /\ rgHist' = [last |-> [name |-> rgThr[t].name,
                                        written |-> <<s, e>>,
                                        actual |-> ActualRange(rgFile,
                                                               rgThr[t].name)],
                              replaces |-> rgHist.replaces + 1]
                /\ rgThr' = [rgThr EXCEPT ![t].pc = "refresh",
                                          ![t].success = TRUE]
           ELSE /\ rgThr' = [rgThr EXCEPT ![t].pc = "unlock"]
                /\ UNCHANGED <<rgFile, rgHeap, rgHist>>
    /\ UNCHANGED <<rgLookup, rgLock>>
    /\ UNCHANGED notRange

\* _refresh_file_nodes(node): returns if no file node has the node's
\* filepath; else the file is parsed again, which may raise (tree_stale),
\* the children of the file node are replaced and node_lookup is rebuilt
RangeRefresh(t, raises) ==
    /\ rgThr[t].pc = "refresh"
    /\ LET node == rgHeap[rgThr[t].node]
           found == rgHeap[RgFileObj].filepath = node.filepath
           gen == rgHist.replaces
           kids == range_parse(rgFile, resolve_filepath(rgHeap[RgFileObj]), gen)
       IN  IF found /\ ~raises
           THEN /\ rgHeap' = kids @@ [rgHeap EXCEPT
                                        ![RgFileObj].end_line = Len(rgFile)]
                /\ rgLookup' = range_ids(kids, gen)
           ELSE /\ found \/ ~raises
                /\ UNCHANGED <<rgHeap, rgLookup>>
    /\ rgThr' = [rgThr EXCEPT ![t].pc = "unlock"]
    /\ UNCHANGED <<rgFile, rgLock, rgHist>>
    /\ UNCHANGED notRange

\* the end of the with block and the answer
RangeUnlock(t) ==
    /\ rgThr[t].pc = "unlock"
    /\ rgLock' = 0
    /\ rgThr' = [rgThr EXCEPT ![t] = RgIdle]
    /\ UNCHANGED <<rgFile, rgHeap, rgLookup, rgHist>>
    /\ UNCHANGED notRange

NextRange ==
    \/ \E t \in Threads, name \in RangeNames, n \in 1..MaxRangeLines :
         RangeLookup(t, name, n)
    \/ \E t \in Threads : RangeLock(t)
    \/ \E t \in Threads : RangeWrite(t)
    \/ \E t \in Threads, raises \in BOOLEAN : RangeRefresh(t, raises)
    \/ \E t \in Threads : RangeUnlock(t)

SpecRange == InitRange /\ [][NextRange]_vars

----------------------------------------------------------------------------
(* Claims about the lines a replace writes *)

\* C35: every successful replace overwrites the lines that hold the target
\* node's source when the write is made, whatever replaces were made
\* before it or are under way: the range written is the range of the
\* target in the file.
C35_WritesCurrentRange ==
    rgHist.last # NoWrite => rgHist.last.written = rgHist.last.actual

----------------------------------------------------------------------------
(* SpecBusy: SpecWatch with analyze requests that take time.  A request    *)
(* calls _touch when it arrives, waits for analyze_lock, and holds the     *)
(* lock while analyze_single_node waits for the summarizer, which gives    *)
(* up after AI_TIMEOUT seconds.                                            *)

AI_TIMEOUT == 120
MaxBusyRequests == 3     \* analyze requests received

\* the requests that have arrived and are not answered
InProgress == lfBusy.waiting + lfBusy.holder

\* do_POST: _touch, then _handle_analyze up to the lock
BusyArrive ==
    /\ Accepting
    /\ lfHist.reqs < MaxBusyRequests
    /\ lfLast' = touch(lfNow, lfLast)
    /\ lfHist' = [lfHist EXCEPT !.seen = lfNow, !.reqs = @ + 1]
    /\ lfBusy' = [lfBusy EXCEPT !.waiting = @ + 1]
    /\ UNCHANGED <<lfNow, lfMain, lfSrv, lfWatch, lfCallers, lfReq>>
    /\ UNCHANGED notBusy

\* _analyze_node: with _Handler.analyze_lock
BusyAcquire ==
    /\ Running
    /\ lfBusy.waiting > 0 /\ lfBusy.holder = 0
    /\ lfBusy' = [waiting |-> lfBusy.waiting - 1, holder |-> 1,
                  since |-> lfNow]
    /\ UNCHANGED lifeVars
    /\ UNCHANGED notBusy

\* analyze_single_node returns, the lock is released and the answer sent:
\* the summarizer has answered or its timeout has passed
BusyFinish ==
    /\ Running
    /\ lfBusy.holder = 1
    /\ lfBusy' = [lfBusy EXCEPT !.holder = 0, !.since = 0]
    /\ UNCHANGED lifeVars
    /\ UNCHANGED notBusy

\* time passes, not beyond the end of the watcher's sleep nor beyond the
\* timeout of the summarizer call under way; a request does not wait for
\* a lock that is free
BusyTick ==
    /\ lfBusy.holder = 1 => lfNow < lfBusy.since + AI_TIMEOUT
    /\ lfBusy.waiting > 0 => lfBusy.holder = 1
    /\ LifeTick

NextBusy ==
    \/ LifeSetup
    \/ LifeInstall
    \/ LifeServe
    \/ BusyArrive
    \/ BusyAcquire
    \/ BusyFinish
    \/ LifeWake
    \/ BusyTick

SpecBusy == InitLife /\ [][NextBusy]_vars

(* Claims about the idle watcher and the requests under way *)

\* C39: the idle watcher decides to shut the server down only when no
\* analyze request is being processed or waits for the analysis lock.
C39_IdleOnlyWhenQuiet ==
    [][(~lfHist.trigger.done /\ lfHist.trigger.done') => InProgress = 0]_vars

----------------------------------------------------------------------------
(* SpecRetry: a file with two classes A and B that each hold the same      *)
(* three-line method g, and a function k of two lines.  The server calls   *)
(* analyze_single_node on the methods; then analyze() is run on the        *)
(* directory, and run again.  The cache file connects all of them.         *)

TwinId == "j"
ClassAId == "A"
ClassBId == "B"
Twins == {Obj(FuncId, 0), Obj(TwinId, 0)}

\* the tree scan_directory and parse_directory build: both methods have
\* the name g, the path f.py and the same source
TwinTree ==
    (Obj(DirId, 0) :> [Node(DirId, "directory", 1, 0, <<>>, <<Obj(FileId, 0)>>)
                          EXCEPT !.start_line = 0, !.line_count = 10])
    @@ (Obj(FileId, 0) :> Node(FileId, "file", 1, 10, SrcOf(10),
                               <<Obj(ClassAId, 0), Obj(ClassBId, 0),
                                 Obj(SevereId, 0)>>))
    @@ (Obj(ClassAId, 0) :> Node(ClassAId, "class", 1, 4, SrcOf(4),
                                 <<Obj(FuncId, 0)>>))
    @@ (Obj(FuncId, 0) :> Node(FuncId, "method", 2, 4, Src3, <<>>))
    @@ (Obj(ClassBId, 0) :> Node(ClassBId, "class", 5, 8, SrcOf(4),
                                 <<Obj(TwinId, 0)>>))
    @@ (Obj(TwinId, 0) :> Node(FuncId, "method", 6, 8, Src3, <<>>))
    @@ (Obj(SevereId, 0) :> Node(SevereId, "function", 9, 10, SrcOf(2), <<>>))

\* the cache file an earlier run left: entries for the file and for the
\* classes, none for the methods
TwinCache ==
    [model |-> Model,
     entries |-> [key \in {cache_key(TwinTree[Obj(id, 0)]) :
                              id \in {FileId, ClassAId, ClassBId}}
                    |-> Entry("AI summary")]]

InitRetry ==
    /\ SpliceIdle /\ EditorIdle /\ NoBatch /\ AuxIdle
    /\ heap = TwinTree
    /\ node_lookup = <<>>
    /\ analyze_lock = 0
    /\ cacheFile = TwinCache
    /\ ollama \in BOOLEAN
    /\ thr = <<>>
    /\ lastResp = <<>>
    /\ reqCount = 0 /\ last_request_time = 0
    /\ shutdownStarted = FALSE
    /\ aiCalls = [o \in DOMAIN heap |-> 0]
    /\ nodeWrites = 0 /\ replaces = 0

\* _analyze_node on one of the methods, while the server runs
RetryNodeStep ==
    /\ bpc = "idle"
    /\ \E o \in Twins, outcome \in AiOutcomes, saved \in BOOLEAN :
         NodeAnalyze(o, outcome, saved)

\* the server has stopped and analyze() is called on the directory: the
\* tree is scanned and parsed anew, the cache file is the one the server
\* left; a server that analyzed a node counts as a run
RetryBatch ==
    /\ bpc = "idle"
    /\ tree' = TwinTree
    /\ workers' = 1
    /\ cache' = EmptyCache("")
    /\ bCacheFile' = cacheFile
    /\ bpc' = "start"
    /\ bSaveHist' = [prev |-> cacheFile, outcome |-> "none"]
    /\ bRun' = IF anLog = <<>> THEN 1 ELSE 2
    /\ bPrevTree' = [nodes |-> heap, clean |-> FALSE]
    /\ bDone' = [o \in DOMAIN TwinTree |-> <<>>]
    /\ UNCHANGED <<pending, job, futures, bLog, bTmpFile, abandoned>>
    /\ UNCHANGED notBatch

\* analyze() has returned and is called again on the same directory
RetryRerun ==
    /\ bpc = "done"
    /\ bRun < MaxRuns
    /\ bRun' = bRun + 1
    /\ bPrevTree' = [nodes |-> tree, clean |-> RunClean]
    /\ tree' = TwinTree
    /\ cache' = EmptyCache("")
    /\ bpc' = "start"
    /\ pending' = <<>>
    /\ job' = [w \in 1..MaxWorkers |-> NoJob]
    /\ futures' = <<>>
    /\ bLog' = <<>>
    /\ bTmpFile' = NoTmp
    /\ bSaveHist' = [prev |-> bCacheFile, outcome |-> "none"]
    /\ abandoned' = <<>>
    /\ bDone' = [o \in DOMAIN tree |-> <<>>]
    /\ UNCHANGED <<workers, bCacheFile>>
    /\ UNCHANGED notBatch

NextRetry ==
    \/ RetryNodeStep
    \/ RetryBatch
    \/ BatchStart
    \/ BatchScore
    \/ BatchRollup
    \/ \E w \in 1..MaxWorkers : BatchTake(w)
    \/ \E w \in 1..MaxWorkers : BatchSmall(w)
    \/ \E w \in 1..MaxWorkers : BatchLookup(w)
    \/ \E w \in 1..MaxWorkers, outcome \in BatchOutcomes :
         BatchSummarize(w, outcome)
    \/ \E w \in 1..MaxWorkers : BatchStore(w)
    \/ \E w \in 1..MaxWorkers : BatchExcept(w)
    \/ BatchDispatchEnd
    \/ BatchDirectories
    \/ BatchSaveCreate
    \/ BatchSaveWrite
    \/ BatchSaveFlush
    \/ BatchSaveReplace
    \/ \E unlinked \in BOOLEAN : BatchSaveFails(unlinked)
    \/ \E o \in DOMAIN abandoned : BatchLateCompletion(o)
    \/ RetryRerun

SpecRetry == InitRetry /\ [][NextRetry]_vars

(* Claims about what is written into the cache and what the next run does *)

\* the summaries a summarizer call that returned a result leaves, and the
\* summaries of a node that timed out, failed or was too small
ResultKinds == {"AI summary", "Could not generate summary"}
NoResultKinds == {"Summary timed out", "Summary generation failed", "Small",
                  "Analysis failed"}

\* _do_one ended for node o in this run the way kind says
Ended(o, kind) == \E k \in DOMAIN bDone[o] : bDone[o][k] = kind

\* a summarizer call for node o returned in this run
CalledIn(o, outcomes) ==
    \E k \in DOMAIN bLog : IsCall(bLog[k], outcomes) /\ bLog[k].node = o

\* the entries of the cache, in the file and in the record a run holds, are
\* the ones that were there plus one for each node whose summarizer call
\* returned a result; a call of analyze_single_node that left no result
\* left the file as it was
StoredOnlyForResults ==
    /\ \A i \in DOMAIN anLog :
         LET e == anLog[i]
             written == [summary |-> e.after.summary,
                         pseudocode |-> e.after.pseudocode]
         IN  /\ e.after.summary.kind \in NoResultKinds => e.cache_after = e.cache
             /\ e.cache_after # e.cache =>
                  /\ e.called
                  /\ e.after.summary.kind \in ResultKinds
                  /\ e.cache_after.entries =
                       (cache_key(Analyzed(e)) :> written)
                          @@ discard_other_model(e.cache).entries
    /\ bpc \notin {"idle", "start"} =>
         \A key \in DOMAIN cache.entries :
            \/ key \in DOMAIN init_cache(bSaveHist.prev).entries
            \/ \E o \in DOMAIN tree :
                  /\ cache_key(tree[o]) = key
                  /\ CalledIn(o, {"ok", "garbage"})
                  /\ Ended(o, "success")
                  /\ cache.entries[key].summary.kind \in ResultKinds
    /\ bpc = "done" => bCacheFile \in {bSaveHist.prev, cache}

\* node o was left without a result by what came before this run: the
\* server's calls or the run before
LeftWithoutResult(o) ==
    /\ bpc # "idle"
    /\ bPrevTree.nodes[o].summary.kind \in NoResultKinds

\* another node with the key of o got a result that was stored, before
\* this run or in it
TwinStored(o) ==
    \E p \in DOMAIN tree \ {o} :
        /\ cache_key(tree[p]) = cache_key(tree[o])
        /\ \/ bPrevTree.nodes[p].summary.kind \in ResultKinds
           \/ Ended(p, "success")

\* C40 as stated: a cache entry is written only for a node whose summarizer
\* call returned a result, on both paths; a node that timed out, failed or
\* was too small leaves the entries unchanged, and the next run of analyze()
\* does not serve it from the cache: it takes the node up again, with a new
\* summarizer call unless the node is too small.
C40_FailureRetried ==
    /\ StoredOnlyForResults
    /\ \A o \in DOMAIN tree :
         LeftWithoutResult(o) =>
           /\ ~Ended(o, "hit")
           /\ (bpc = "done" /\ ~below_min_lines(tree[o])) =>
                 CalledIn(o, BatchOutcomes)

\* C40, amended: a cache entry is written only for a node whose summarizer
\* call returned a result, on both paths, and a node that timed out, failed
\* or was too small leaves the entries unchanged.  The next run of analyze()
\* takes the node up again, with a new summarizer call unless the node is
\* too small or another node with the same cache key (same file, name and
\* source) has had its result stored in the meantime: then the node is
\* served from that entry.
C40_FailureRetriedUnlessTwinStored ==
    /\ StoredOnlyForResults
    /\ \A o \in DOMAIN tree :
         LeftWithoutResult(o) =>
           /\ Ended(o, "hit") => TwinStored(o)
           /\ (bpc = "done" /\ ~below_min_lines(tree[o])) =>
                 CalledIn(o, BatchOutcomes) \/ TwinStored(o)

\* the method of class A timed out in the first run of analyze(), which
\* stored nothing under its key, and the second run has called the
\* summarizer for it again and stored the result
C40_Witness ==
    /\ bRun = 2
    /\ anLog = <<>>
    /\ bPrevTree.nodes[Obj(FuncId, 0)].summary.kind = "Summary timed out"
    /\ cache_key(tree[Obj(FuncId, 0)]) \notin DOMAIN bSaveHist.prev.entries
    /\ CalledIn(Obj(FuncId, 0), {"ok"})
    /\ Ended(Obj(FuncId, 0), "success")
    /\ cache_key(tree[Obj(FuncId, 0)]) \in DOMAIN cache.entries

====
